---------------------------- MODULE Spec2Model ----------------------------
(***************************************************************************)
(* Request queue and single-worker execution core of the reschedule API    *)
(* server (src/unnamed/part_005, the queueing express server).             *)
(*                                                                         *)
(* A QueueItem is identified by the ordinal of its accepted submission     *)
(* (object identity in the source: queue.includes / queue.indexOf compare  *)
(* references).  Every handler of the event loop is one atomic action: the *)
(* source has a single suspension point, the await of the runner inside    *)
(* processQueue; everything before it and everything after it runs to      *)
(* completion without interleaving.                                        *)
(*                                                                         *)
(* The variables dispatchCount, resolveCount, resolvedNow and lastSync are  *)
(* history variables: they record the calls of the runner, the calls of    *)
(* item.resolve and the HTTP response made by the handlers.                *)
(*                                                                         *)
(* Time is abstract.  A per-item timer may fire at any moment after it was *)
(* armed (Node documents no ordering between timers), the runner settles   *)
(* at any moment with any of its three outcomes, and a signal may arrive   *)
(* at any moment.                                                          *)
(***************************************************************************)
EXTENDS Naturals, Sequences, FiniteSets, TLC

(* ------------------------------ bounds -------------------------------- *)

\* server.ts: const MAX_QUEUE_SIZE = 50, scaled down so that a full queue is
\* reachable.
MAX_QUEUE_SIZE == 2

\* Submissions accepted (QueueItems created) in one behaviour.
MaxItems == 4

\* generateRequestId: crypto.randomBytes(6), scaled down.
IdBytes == 1

\* The largest value a random byte takes (255 in the program).
MaxByte == 2

\* Submissions accepted in one behaviour of IdSpec.
MaxIdItems == 3

\* Process-level errors handled in one behaviour of ErrSpec.
MaxErrors == 1

\* Upcoming appointment links on the client page in RunSpec.
MaxAppointments == 2

\* Requests received in one behaviour of ChildSpec.
MaxChildRequests == 4

\* The latest reading of the clock in ChildSpec.
MaxChildClock == 2

\* SIGTERM / SIGINT deliveries in one behaviour.
MaxSignals == 2

\* Math.round((Date.now() - start) / 1000) of a run: a quick and a slow one.
Durations == {0, 1}

Items == 1..MaxItems

\* TimedSpec: submissions made, the longest runner latency and the latest
\* clock value at which the idle server is still observed (half seconds).
MaxTimedItems == 3
MaxLatency == 4
MaxClock == 6

\* HttpSpec: submissions accepted.
MaxHttpItems == 3

\* if (msg.length > 200) msg = msg.substring(0, 200) + '...'
MaxMessageLength == 200

Null == "null"

\* undefined: an environment variable or a header that is not set
Unset == "undefined"

\* null for a variable that otherwise holds a record
None == [none |-> TRUE]

VARIABLES
    queue,          \* const queue: QueueItem[]      (sequence of items)
    timedOut,       \* item.timedOut, per item
    timer,          \* the item's setTimeout: "none", "armed", "fired"
    isRunning,      \* let isRunning
    startedAt,      \* let startedAt: Null or "date"
    inflight,       \* items whose rescheduleAppointment call has not settled
    dispatchCount,  \* per item, number of rescheduleAppointment calls made
    resolveCount,   \* per item, number of item.resolve calls made so far
    resolvedNow,    \* the item.resolve calls of the latest handler run:
                    \* a sequence of [item, via, result]
    sentNow,        \* the HTTP responses sent to the callers resolved by the
                    \* latest handler run: a sequence of [item, status, body]
    totalProcessed,
    totalSuccess,
    totalFailed,
    lastResult,     \* None or the last RunResult of the runner
    nItems,         \* QueueItems created so far
    lastSync,       \* the HTTP response sent synchronously by the latest
                    \* handler run, None when it sent none
    listening,      \* the server accepts new connections
    signals,        \* shutdown() calls so far
    process         \* "running", "exit(0)" or "exit(1)"

queueVars == <<queue, timedOut, timer, isRunning, startedAt, inflight,
               dispatchCount, resolveCount, resolvedNow, sentNow,
               totalProcessed, totalSuccess, totalFailed, lastResult, nItems,
               lastSync, listening, signals, process>>

\* The queue with a clock (TimedSpec).  Time is counted in half seconds.
VARIABLES
    tClock,         \* Date.now()
    tLatency,       \* the time every rescheduleAppointment call takes
    tQueue,         \* queue
    tRunning,       \* isRunning
    tItem,          \* the item whose runner call is awaited, 0 when none
    tStart,         \* const start = Date.now() of the run in progress
    tSettleAt,      \* the clock at which the awaited runner call settles
    tQueuedAt,      \* item.queuedAt, per item
    tOutcome,       \* per item: "none", "returned" or "threw"
    tDuration,      \* per item, the duration of the result it was resolved with
    tFinishedAt,    \* per item, the clock when it was resolved
    tItems          \* QueueItems created so far

timedVars == <<tClock, tLatency, tQueue, tRunning, tItem, tStart, tSettleAt, tQueuedAt,
               tOutcome, tDuration, tFinishedAt, tItems>>

\* The POST handler with its authentication and validation (HttpSpec).
VARIABLES
    hEnvKey,        \* process.env.API_KEY
    hQueue,         \* queue
    hRunning,       \* isRunning
    hItem,          \* the item whose runner call is awaited, 0 when none
    hItems,         \* QueueItems created so far
    hTimers,        \* items whose setTimeout was armed
    hPhase,         \* the latest POST: "idle" (none under way), "received"
                    \* (parsed, its handler not run yet), "answered" (it
                    \* got a synchronous response) or "queued"
    hReq,           \* the request of the latest POST, None when idle
    hResp           \* the response the latest POST was answered with

httpVars == <<hEnvKey, hQueue, hRunning, hItem, hItems, hTimers, hPhase, hReq,
              hResp>>

\* cleanErrorMessage applied to one raw failure text (CleanSpec).
VARIABLES
    cRaw,           \* raw: the message of the error caught by the runner
    cDone,          \* cleanErrorMessage has returned
    cMsg            \* its return value

cleanVars == <<cRaw, cDone, cMsg>>

\* The queue with the request ids drawn by generateRequestId (IdSpec).
VARIABLES
    rIds,           \* item.id of the QueueItems created so far, in order
    rQueue,         \* queue
    rItem           \* the item whose runner call is awaited, 0 when none

idVars == <<rIds, rQueue, rItem>>

\* The process-level error handlers (ErrSpec).
VARIABLES
    eLogged         \* errors logged by the uncaughtException and
                    \* unhandledRejection handlers so far

errVars == <<eLogged>>

\* One call of rescheduleAppointment (RunSpec).
VARIABLES
    wData,          \* data: RescheduleParams
    wAppts,         \* the texts of the upcoming appointment links, in order
    wPc,            \* where the call is: "start", "workflow", "select",
                    \* "form", "save", "catch", "finally" or "done"
    wBrowser,       \* browser: "null", "open" or "closed"
    wTarget,        \* targetAppointment: its index, 0 when unset
    wError,         \* None or [message |-> m] for the error thrown in the try
    wPending,       \* None or the value of the return statement reached
    wSettled,       \* None or how the returned promise settled
    wModified       \* the Save button was clicked

runVars == <<wData, wAppts, wPc, wBrowser, wTarget, wError, wPending,
             wSettled, wModified>>

\* The server that runs the Playwright test as a child process (ChildSpec).
VARIABLES
    kIsRunning,     \* isRunning
    kCurrentProcess,\* currentProcess: None or [pid |-> c]
    kStartedAt,     \* startedAt: None or [at |-> t]
    kChildren,      \* the child processes spawned and not yet closed
    kTimers,        \* the children whose kill timer is armed
    kSignalled,     \* the children sent SIGTERM by their timer
    kOwner,         \* kOwner[c]: the request whose handler awaits child c
    kResponses,     \* per request: its body and the response (status 0:
                    \* none yet)
    kNow            \* Date.now()

childVars == <<kIsRunning, kCurrentProcess, kStartedAt, kChildren, kTimers,
               kSignalled, kOwner, kResponses, kNow>>

\* The variables of the specifications added after the first four.
lateVars == <<idVars, errVars, runVars, childVars>>

\* The variables of the other specifications, which a step leaves alone.
auxVars == <<timedVars, httpVars, cleanVars, lateVars>>
notTimedVars == <<queueVars, httpVars, cleanVars, lateVars>>
notHttpVars == <<queueVars, timedVars, cleanVars, lateVars>>
notCleanVars == <<queueVars, timedVars, httpVars, lateVars>>
notIdVars == <<queueVars, timedVars, httpVars, cleanVars, errVars, runVars,
               childVars>>
notErrVars == <<timedVars, httpVars, cleanVars, idVars, runVars, childVars>>
notRunVars == <<queueVars, timedVars, httpVars, cleanVars, idVars, errVars,
                childVars>>
notChildVars == <<queueVars, timedVars, httpVars, cleanVars, idVars, errVars,
                  runVars>>

vars == <<queueVars, auxVars>>

(* ----------------------------- results -------------------------------- *)

\* `Queue is full (${MAX_QUEUE_SIZE} pending). Try again later.`
QueueFullError == "Queue is full (MAX_QUEUE_SIZE pending). Try again later."
QueueTimeoutError == "Request timed out waiting in queue. Try again later."
ShutdownError == "Server shutting down"
UnexpectedError == "An unexpected error occurred."

\* generateRequestId(): the id handed to the item created for submission i,
\* named by the submission.  The random draw of the id and the question
\* whether two submissions can draw the same one are the subject of IdSpec.
generateRequestId(i) == i

TimeoutResult(i) ==
    [success |-> FALSE, requestId |-> generateRequestId(i),
     error |-> QueueTimeoutError, duration |-> 0]

ShutdownResult(i) ==
    [success |-> FALSE, requestId |-> generateRequestId(i),
     error |-> ShutdownError, duration |-> 0]

\* Mutant: the result carries the id of the latest submission, not item.id.
RunResultOfLatestId(i, result, duration) ==
    IF result.success
    THEN [success |-> TRUE, requestId |-> generateRequestId(nItems),
          message |-> result.message, duration |-> duration]
    ELSE [success |-> FALSE, requestId |-> generateRequestId(nItems),
          error |-> result.message, duration |-> duration]

\* result.success ? {success, message, duration} : {success, error, duration}
RunResultOf(i, result, duration) ==
    IF result.success
    THEN [success |-> TRUE, requestId |-> generateRequestId(i),
          message |-> result.message, duration |-> duration]
    ELSE [success |-> FALSE, requestId |-> generateRequestId(i),
          error |-> result.message, duration |-> duration]

\* item.params.clientSearch: every submission carries its own params object.
ClientSearchOf(i) == i

\* lastResult = { ...runResult, clientSearch, finishedAt }
LastResultOf(i, runResult) ==
    runResult @@ [clientSearch |-> ClientSearchOf(i), finishedAt |-> "date"]

\* catch (err): err.message || 'An unexpected error occurred.', duration 0
ErrorResultOf(i, errMessage) ==
    [success |-> FALSE, requestId |-> generateRequestId(i),
     error |-> IF errMessage = "" THEN UnexpectedError ELSE errMessage,
     duration |-> 0]

\* What one rescheduleAppointment call can do: return {success, message}
\* or throw an error (with a possibly empty message).
RunnerOutcomes ==
    { [threw |-> FALSE, success |-> TRUE,  message |-> "Appointment rescheduled"],
      [threw |-> FALSE, success |-> FALSE, message |-> "Operation timed out."],
      [threw |-> TRUE,  success |-> FALSE, message |-> "browser has been closed"],
      [threw |-> TRUE,  success |-> FALSE, message |-> ""] }

(* --------------------------- queue helpers ---------------------------- *)

InQueue(q, i) == \E k \in 1..Len(q) : q[k] = i

\* queue.indexOf(item), 1-based; 0 when absent
IndexOf(q, i) ==
    IF InQueue(q, i) THEN CHOOSE k \in 1..Len(q) :
                              q[k] = i /\ \A j \in 1..(k-1) : q[j] # i
    ELSE 0

\* Mutant: the entry is not spliced out of the list.
SpliceNothing(q, idx) == q

\* Mutant: the removed slot is filled with the last entry (swap-remove).
SpliceSwapLast(q, idx) ==
    [k \in 1..(Len(q) - 1) |-> IF k = idx THEN q[Len(q)] ELSE q[k]]

\* queue.splice(idx, 1)
Splice(q, idx) ==
    [k \in 1..(Len(q) - 1) |-> IF k < idx THEN q[k] ELSE q[k + 1]]

\* Mutant: the head of the list is taken without looking at its flag.
SkipTimedOutNothing(q, tOut) == q

\* while (queue.length > 0 && queue[0].timedOut) queue.shift();
RECURSIVE SkipTimedOut(_, _)
SkipTimedOut(q, tOut) ==
    IF Len(q) > 0 /\ tOut[Head(q)] THEN SkipTimedOut(Tail(q), tOut) ELSE q

\* Mutant: > instead of >=.
QueueIsFullOffByOne(q) == Len(q) > MAX_QUEUE_SIZE

\* if (queue.length >= MAX_QUEUE_SIZE) return res.status(429)
QueueIsFull(q) == Len(q) >= MAX_QUEUE_SIZE

\* Mutant: the busy flag is not consulted.
DrainGuardIgnoresBusy(running, q) == Len(q) = 0

\* Mutant: the test of the busy flag is inverted.
DrainGuardInverted(running, q) == ~running \/ Len(q) = 0

\* if (isRunning || queue.length === 0) return;
DrainGuard(running, q) == running \/ Len(q) = 0

\* Mutant: queue.pop() instead of queue.shift().
ProcessQueuePop(q, running, started, tOut) ==
    IF DrainGuard(running, q)
    THEN [queue |-> q, isRunning |-> running, startedAt |-> started, item |-> 0]
    ELSE LET q1 == SkipTimedOut(q, tOut) IN
         IF Len(q1) = 0
         THEN [queue |-> q1, isRunning |-> running, startedAt |-> started,
               item |-> 0]
         ELSE [queue |-> SubSeq(q1, 1, Len(q1) - 1), isRunning |-> TRUE,
               startedAt |-> "date", item |-> q1[Len(q1)]]

\* Mutant: startedAt is not assigned when a run starts.
ProcessQueueNoStartTime(q, running, started, tOut) ==
    IF DrainGuard(running, q)
    THEN [queue |-> q, isRunning |-> running, startedAt |-> started, item |-> 0]
    ELSE LET q1 == SkipTimedOut(q, tOut) IN
         IF Len(q1) = 0
         THEN [queue |-> q1, isRunning |-> running, startedAt |-> started,
               item |-> 0]
         ELSE [queue |-> Tail(q1), isRunning |-> TRUE, startedAt |-> started,
               item |-> Head(q1)]

\* Mutant: the head is dispatched but left in the list (queue[0], no shift).
ProcessQueuePeek(q, running, started, tOut) ==
    IF DrainGuard(running, q)
    THEN [queue |-> q, isRunning |-> running, startedAt |-> started, item |-> 0]
    ELSE LET q1 == SkipTimedOut(q, tOut) IN
         IF Len(q1) = 0
         THEN [queue |-> q1, isRunning |-> running, startedAt |-> started,
               item |-> 0]
         ELSE [queue |-> q1, isRunning |-> TRUE, startedAt |-> "date",
               item |-> Head(q1)]

\* The synchronous part of processQueue(), up to the await of the runner.
\* item = 0 when it returned without dispatching.
ProcessQueue(q, running, started, tOut) ==
    IF DrainGuard(running, q)
    THEN [queue |-> q, isRunning |-> running, startedAt |-> started, item |-> 0]
    ELSE LET q1 == SkipTimedOut(q, tOut) IN
         IF Len(q1) = 0
         THEN [queue |-> q1, isRunning |-> running, startedAt |-> started,
               item |-> 0]
         ELSE [queue |-> Tail(q1), isRunning |-> TRUE, startedAt |-> "date",
               item |-> Head(q1)]

\* rescheduleAppointment(item.params) is called for pq.item, if any.
Invoke(pq) ==
    /\ inflight' = IF pq.item = 0 THEN inflight ELSE inflight \cup {pq.item}
    /\ dispatchCount' = IF pq.item = 0 THEN dispatchCount
                        ELSE [dispatchCount EXCEPT ![pq.item] = @ + 1]

\* item.resolve(result), reached through the path `via`
Call(i, via, result) == [item |-> i, via |-> via, result |-> result]

\* POST handler after `await enqueue(...)`:
\* res.status(result.success ? 200 : 500).json(result)
ResponseOf(call) ==
    [item |-> call.item,
     status |-> IF call.result.success THEN 200 ELSE 500,
     body |-> call.result]

\* The handler made the resolve calls `calls`; the POST handlers awaiting
\* them continue and answer before any other handler runs.
Resolve(calls) ==
    /\ resolvedNow' = calls
    /\ sentNow' = [k \in 1..Len(calls) |-> ResponseOf(calls[k])]
    /\ resolveCount' =
          [i \in Items |->
              resolveCount[i] + Cardinality({k \in 1..Len(calls) : calls[k].item = i})]

(* ------------------------------- Init --------------------------------- *)

QueueInit ==
    /\ queue = <<>>
    /\ timedOut = [i \in Items |-> FALSE]
    /\ timer = [i \in Items |-> "none"]
    /\ isRunning = FALSE
    /\ startedAt = Null
    /\ inflight = {}
    /\ dispatchCount = [i \in Items |-> 0]
    /\ resolveCount = [i \in Items |-> 0]
    /\ resolvedNow = <<>>
    /\ sentNow = <<>>
    /\ totalProcessed = 0
    /\ totalSuccess = 0
    /\ totalFailed = 0
    /\ lastResult = None
    /\ nItems = 0
    /\ lastSync = None
    /\ listening = TRUE
    /\ signals = 0
    /\ process = "running"

\* The timed queue at rest: what TimedSpec's variables hold in the other
\* specifications.
TimedIdle ==
    /\ tClock = 0
    /\ tLatency = 0
    /\ tQueue = <<>>
    /\ tRunning = FALSE
    /\ tItem = 0
    /\ tStart = 0
    /\ tSettleAt = 0
    /\ tQueuedAt = [i \in Items |-> 0]
    /\ tOutcome = [i \in Items |-> "none"]
    /\ tDuration = [i \in Items |-> 0]
    /\ tFinishedAt = [i \in Items |-> 0]
    /\ tItems = 0

\* The POST handler at rest, in the other specifications.
HttpIdle ==
    /\ hEnvKey = Unset
    /\ hQueue = <<>>
    /\ hRunning = FALSE
    /\ hItem = 0
    /\ hItems = 0
    /\ hTimers = {}
    /\ hPhase = "idle"
    /\ hReq = None
    /\ hResp = None

\* cleanErrorMessage not called, in the other specifications.
CleanIdle ==
    /\ cRaw = ""
    /\ cDone = FALSE
    /\ cMsg = ""

\* No submission has drawn a request id yet.
IdIdle ==
    /\ rIds = <<>>
    /\ rQueue = <<>>
    /\ rItem = 0

\* No process-level error has been logged.
ErrIdle == eLogged = 0

\* rescheduleAppointment not called.
RunIdle ==
    /\ wData = None
    /\ wAppts = <<>>
    /\ wPc = "done"
    /\ wBrowser = "null"
    /\ wTarget = 0
    /\ wError = None
    /\ wPending = None
    /\ wSettled = None
    /\ wModified = FALSE

\* The child-process server as started: let isRunning = false,
\* currentProcess = null, startedAt = null.
ChildInit ==
    /\ kIsRunning = FALSE
    /\ kCurrentProcess = None
    /\ kStartedAt = None
    /\ kChildren = {}
    /\ kTimers = {}
    /\ kSignalled = {}
    /\ kOwner = <<>>
    /\ kResponses = <<>>
    /\ kNow = 0

\* The later specifications at rest.
LateIdle ==
    /\ IdIdle
    /\ ErrIdle
    /\ RunIdle
    /\ ChildInit

Init ==
    /\ QueueInit
    /\ TimedIdle
    /\ HttpIdle
    /\ CleanIdle
    /\ LateIdle

Alive == process = "running"

(* ------------------------------ actions ------------------------------- *)

\* POST /api/reschedule with a valid body and key, queue full: 429.
\* (server.close() only stops new connections: a request on a connection that
\* is already open is still handled after shutdown(), until the process exits.)
PostQueueFull ==
    /\ Alive
    /\ QueueIsFull(queue)
    /\ lastSync' = [status |-> 429, success |-> FALSE, error |-> QueueFullError]
    /\ Resolve(<<>>)
    /\ UNCHANGED <<queue, timedOut, timer, isRunning, startedAt, inflight,
                   dispatchCount, totalProcessed, totalSuccess, totalFailed,
                   lastResult, nItems, listening, signals, process>>
    /\ UNCHANGED auxVars

\* POST /api/reschedule with a valid body and key, room in the queue:
\* enqueue(requestId, params) = push, arm the timer, processQueue().
PostEnqueue ==
    /\ Alive
    /\ nItems < MaxItems
    /\ ~QueueIsFull(queue)
    /\ LET i  == nItems + 1
           pq == ProcessQueue(Append(queue, i), isRunning, startedAt, timedOut)
       IN /\ nItems' = i
          /\ timer' = [timer EXCEPT ![i] = "armed"]
          /\ queue' = pq.queue
          /\ isRunning' = pq.isRunning
          /\ startedAt' = pq.startedAt
          /\ Invoke(pq)
    /\ lastSync' = None
    /\ Resolve(<<>>)
    /\ UNCHANGED <<timedOut, totalProcessed, totalSuccess,
                   totalFailed, lastResult, listening, signals,
                   process>>
    /\ UNCHANGED auxVars

\* Mutant: the callback does not check that the item is still queued.
TimerActsUnchecked(q, tOut, i) == ~tOut[i]

\* if (!item.timedOut && queue.includes(item))
TimerActs(q, tOut, i) == ~tOut[i] /\ InQueue(q, i)

\* Mutant: a queue timeout is counted as a processed, failed run.
TimerFireCountsFailure(i) ==
    /\ Alive
    /\ timer[i] = "armed"
    /\ timer' = [timer EXCEPT ![i] = "fired"]
    /\ IF TimerActs(queue, timedOut, i)
       THEN /\ timedOut' = [timedOut EXCEPT ![i] = TRUE]
            /\ queue' = LET idx == IndexOf(queue, i) IN
                        IF idx # 0 THEN Splice(queue, idx) ELSE queue
            /\ Resolve(<<Call(i, "timer", TimeoutResult(i))>>)
            /\ totalProcessed' = totalProcessed + 1
            /\ totalFailed' = totalFailed + 1
       ELSE /\ Resolve(<<>>)
            /\ UNCHANGED <<timedOut, queue, totalProcessed, totalFailed>>
    /\ lastSync' = None
    /\ UNCHANGED <<isRunning, startedAt, inflight, dispatchCount,
                   totalSuccess, lastResult,
                   nItems, listening, signals, process>>
    /\ UNCHANGED auxVars

\* The setTimeout callback armed by enqueue for item i.
TimerFire(i) ==
    /\ Alive
    /\ timer[i] = "armed"
    /\ timer' = [timer EXCEPT ![i] = "fired"]
    /\ IF TimerActs(queue, timedOut, i)
       THEN /\ timedOut' = [timedOut EXCEPT ![i] = TRUE]
            /\ queue' = LET idx == IndexOf(queue, i) IN
                        IF idx # 0 THEN Splice(queue, idx) ELSE queue
            /\ Resolve(<<Call(i, "timer", TimeoutResult(i))>>)
       ELSE /\ Resolve(<<>>)
            /\ UNCHANGED <<timedOut, queue>>
    /\ lastSync' = None
    /\ UNCHANGED <<isRunning, startedAt, inflight, dispatchCount,
                   totalProcessed, totalSuccess, totalFailed, lastResult,
                   nItems, listening, signals, process>>
    /\ UNCHANGED auxVars

\* Mutant: the catch block forgets item.resolve(errorResult).
SettleCallsThrowUnresolved(i, out, d) ==
    IF ~out.threw
    THEN <<Call(i, "returned", RunResultOf(i, out, d))>>
    ELSE <<>>

\* The item.resolve call of the try body (runner returned) or of the catch
\* body (runner threw).
SettleCalls(i, out, d) ==
    IF ~out.threw
    THEN <<Call(i, "returned", RunResultOf(i, out, d))>>
    ELSE <<Call(i, "threw", ErrorResultOf(i, out.message))>>

\* Mutant: the catch block counts the failure but not the processed run.
RunnerSettleThrowHalfCounted(i, out, d) ==
    /\ Alive
    /\ i \in inflight
    /\ IF ~out.threw
       THEN LET runResult == RunResultOf(i, out, d) IN
            /\ totalProcessed' = totalProcessed + 1
            /\ totalSuccess' = IF out.success THEN totalSuccess + 1 ELSE totalSuccess
            /\ totalFailed' = IF out.success THEN totalFailed ELSE totalFailed + 1
            /\ lastResult' = LastResultOf(i, runResult)
       ELSE /\ totalFailed' = totalFailed + 1
            /\ UNCHANGED <<totalProcessed, totalSuccess, lastResult>>
    /\ Resolve(SettleCalls(i, out, d))
    /\ LET pq == ProcessQueue(queue, FALSE, Null, timedOut) IN
          /\ queue' = pq.queue
          /\ isRunning' = pq.isRunning
          /\ startedAt' = pq.startedAt
          /\ inflight' = IF pq.item = 0 THEN inflight \ {i}
                         ELSE (inflight \ {i}) \cup {pq.item}
          /\ dispatchCount' = IF pq.item = 0 THEN dispatchCount
                              ELSE [dispatchCount EXCEPT ![pq.item] = @ + 1]
    /\ lastSync' = None
    /\ UNCHANGED <<timedOut, timer, nItems, listening, signals, process>>
    /\ UNCHANGED auxVars

\* Mutant: no finally; a thrown error leaves the flag set and drains nothing.
RunnerSettleNoFinallyOnThrow(i, out, d) ==
    /\ Alive
    /\ i \in inflight
    /\ IF ~out.threw
       THEN LET runResult == RunResultOf(i, out, d) IN
            /\ totalProcessed' = totalProcessed + 1
            /\ totalSuccess' = IF out.success THEN totalSuccess + 1 ELSE totalSuccess
            /\ totalFailed' = IF out.success THEN totalFailed ELSE totalFailed + 1
            /\ lastResult' = LastResultOf(i, runResult)
       ELSE /\ totalProcessed' = totalProcessed + 1
            /\ totalFailed' = totalFailed + 1
            /\ UNCHANGED <<totalSuccess, lastResult>>
    /\ Resolve(SettleCalls(i, out, d))
    /\ LET pq == IF out.threw
                 THEN [queue |-> queue, isRunning |-> TRUE,
                       startedAt |-> startedAt, item |-> 0]
                 ELSE ProcessQueue(queue, FALSE, Null, timedOut) IN
          /\ queue' = pq.queue
          /\ isRunning' = pq.isRunning
          /\ startedAt' = pq.startedAt
          /\ inflight' = IF pq.item = 0 THEN inflight \ {i}
                         ELSE (inflight \ {i}) \cup {pq.item}
          /\ dispatchCount' = IF pq.item = 0 THEN dispatchCount
                              ELSE [dispatchCount EXCEPT ![pq.item] = @ + 1]
    /\ lastSync' = None
    /\ UNCHANGED <<timedOut, timer, nItems, listening, signals, process>>
    /\ UNCHANGED auxVars

\* Continuation of processQueue after `await rescheduleAppointment(...)` for
\* item i: try body or catch body, then finally (which calls processQueue).
RunnerSettle(i, out, d) ==
    /\ Alive
    /\ i \in inflight
    /\ IF ~out.threw
       THEN LET runResult == RunResultOf(i, out, d) IN
            /\ totalProcessed' = totalProcessed + 1
            /\ totalSuccess' = IF out.success THEN totalSuccess + 1 ELSE totalSuccess
            /\ totalFailed' = IF out.success THEN totalFailed ELSE totalFailed + 1
            /\ lastResult' = LastResultOf(i, runResult)
       ELSE /\ totalProcessed' = totalProcessed + 1
            /\ totalFailed' = totalFailed + 1
            /\ UNCHANGED <<totalSuccess, lastResult>>
    /\ Resolve(SettleCalls(i, out, d))
    /\ LET pq == ProcessQueue(queue, FALSE, Null, timedOut) IN
          /\ queue' = pq.queue
          /\ isRunning' = pq.isRunning
          /\ startedAt' = pq.startedAt
          /\ inflight' = IF pq.item = 0 THEN inflight \ {i}
                         ELSE (inflight \ {i}) \cup {pq.item}
          /\ dispatchCount' = IF pq.item = 0 THEN dispatchCount
                              ELSE [dispatchCount EXCEPT ![pq.item] = @ + 1]
    /\ lastSync' = None
    /\ UNCHANGED <<timedOut, timer, nItems, listening, signals, process>>
    /\ UNCHANGED auxVars

\* while (queue.length > 0) { item = queue.shift(); item.resolve(...) }
RECURSIVE ShutdownLoop(_, _)
ShutdownLoop(q, calls) ==
    IF Len(q) > 0
    THEN ShutdownLoop(Tail(q),
                      Append(calls, Call(Head(q), "shutdown", ShutdownResult(Head(q)))))
    ELSE [queue |-> q, calls |-> calls]

\* Mutant: `if` instead of `while`, only the head is resolved.
ShutdownDrainHeadOnly(q) ==
    IF Len(q) > 0
    THEN [queue |-> Tail(q),
          calls |-> <<Call(Head(q), "shutdown", ShutdownResult(Head(q)))>>]
    ELSE [queue |-> q, calls |-> <<>>]

ShutdownDrain(q) == ShutdownLoop(q, <<>>)

\* Mutant: shutdown() also resets the worker state.
ShutdownResetsWorker ==
    /\ process = "running"
    /\ signals < MaxSignals
    /\ LET sd == ShutdownDrain(queue) IN
          /\ queue' = sd.queue
          /\ Resolve(sd.calls)
    /\ listening' = FALSE
    /\ signals' = signals + 1
    /\ lastSync' = None
    /\ isRunning' = FALSE
    /\ startedAt' = Null
    /\ UNCHANGED <<timedOut, timer, inflight, dispatchCount, totalProcessed,
                   totalSuccess, totalFailed, lastResult, nItems, process>>
    /\ UNCHANGED auxVars

\* shutdown(signal): drain the queue, server.close(...), arm the exit timer.
Shutdown ==
    /\ Alive
    /\ signals < MaxSignals
    /\ LET sd == ShutdownDrain(queue) IN
          /\ queue' = sd.queue
          /\ Resolve(sd.calls)
    /\ listening' = FALSE
    /\ signals' = signals + 1
    /\ lastSync' = None
    /\ UNCHANGED <<timedOut, timer, isRunning, startedAt, inflight,
                   dispatchCount, totalProcessed, totalSuccess, totalFailed,
                   lastResult, nItems, process>>
    /\ UNCHANGED auxVars

\* An accepted request whose HTTP response has not been sent.
Pending(i) == i <= nItems /\ resolveCount[i] = 0

\* server.close(() => process.exit(0)): the callback runs once the server has
\* stopped listening and no connection is still waiting for its response.
ExitClosed ==
    /\ Alive
    /\ signals > 0
    /\ \A i \in Items : ~Pending(i)
    /\ process' = "exit(0)"
    /\ UNCHANGED <<queue, timedOut, timer, isRunning, startedAt, inflight,
                   dispatchCount, resolveCount, resolvedNow, sentNow,
                   totalProcessed, totalSuccess, totalFailed, lastResult,
                   nItems, lastSync, listening, signals>>
    /\ UNCHANGED auxVars

\* setTimeout(() => process.exit(1), 10_000)
ExitForced ==
    /\ Alive
    /\ signals > 0
    /\ process' = "exit(1)"
    /\ UNCHANGED <<queue, timedOut, timer, isRunning, startedAt, inflight,
                   dispatchCount, resolveCount, resolvedNow, sentNow,
                   totalProcessed, totalSuccess, totalFailed, lastResult,
                   nItems, lastSync, listening, signals>>
    /\ UNCHANGED auxVars

Next ==
    \/ PostQueueFull
    \/ PostEnqueue
    \/ \E i \in Items : TimerFire(i)
    \/ \E i \in Items, out \in RunnerOutcomes, d \in Durations :
           RunnerSettle(i, out, d)
    \/ Shutdown
    \/ ExitClosed
    \/ ExitForced

Spec == Init /\ [][Next]_vars

\* Every runner call settles (the runner bounds each of its waits), an
\* armed timer fires as long as one is armed, and the exit timer armed by
\* shutdown() fires.  Each of these steps changes a variable of the queue.
FairSpec ==
    /\ Spec
    /\ WF_queueVars(\E i \in Items, out \in RunnerOutcomes, d \in Durations :
                        RunnerSettle(i, out, d))
    /\ WF_queueVars(\E i \in Items : TimerFire(i))
    /\ WF_queueVars(ExitForced)

(* ---------------------------- timed queue ----------------------------- *)

\* Math.round(ms / 1000) for a time of h half seconds (x.5 rounds up).
Round(h) == (h + 1) \div 2

\* Mutant: the run is timed from item.queuedAt.
RunStartAtQueuedAt(now, queuedAt) == queuedAt

\* const start = Date.now(), taken when the item is dispatched
RunStart(now, queuedAt) == now

\* const duration = Math.round((Date.now() - start) / 1000)
DurationOf(start, now) == Round(now - start)

NoneTimedOut == [i \in Items |-> FALSE]

TimedInit ==
    /\ tClock = 0
    /\ tLatency \in 1..MaxLatency
    /\ tQueue = <<>>
    /\ tRunning = FALSE
    /\ tItem = 0
    /\ tStart = 0
    /\ tSettleAt = 0
    /\ tQueuedAt = [i \in Items |-> 0]
    /\ tOutcome = [i \in Items |-> "none"]
    /\ tDuration = [i \in Items |-> 0]
    /\ tFinishedAt = [i \in Items |-> 0]
    /\ tItems = 0

\* processQueue() up to the await, with the clock: the dispatched item's
\* run starts now and its runner call settles tLatency later.
TimedDispatch(q, running) ==
    LET pq == ProcessQueue(q, running, Null, NoneTimedOut) IN
    /\ tQueue' = pq.queue
    /\ tRunning' = pq.isRunning
    /\ IF pq.item = 0
       THEN IF running THEN UNCHANGED <<tItem, tStart, tSettleAt>>
            ELSE tItem' = 0 /\ tStart' = 0 /\ tSettleAt' = 0
       ELSE /\ tItem' = pq.item
            /\ tStart' = RunStart(tClock, tQueuedAt'[pq.item])
            /\ tSettleAt' = tClock + tLatency

\* POST /api/reschedule with a valid body, queue not full: enqueue.
TimedSubmit ==
    /\ tItems < MaxTimedItems
    /\ ~QueueIsFull(tQueue)
    /\ tItems' = tItems + 1
    /\ tQueuedAt' = [tQueuedAt EXCEPT ![tItems + 1] = tClock]
    /\ TimedDispatch(Append(tQueue, tItems + 1), tRunning)
    /\ UNCHANGED <<tClock, tLatency, tOutcome, tDuration, tFinishedAt>>
    /\ UNCHANGED notTimedVars

\* Half a second passes: while a runner call is awaited, up to the moment it
\* settles; while the server is idle, up to MaxClock.
TimedTick ==
    /\ IF tItem # 0 THEN tClock < tSettleAt ELSE tClock < MaxClock
    /\ tClock' = tClock + 1
    /\ UNCHANGED <<tLatency, tQueue, tRunning, tItem, tStart, tSettleAt,
                   tQueuedAt, tOutcome, tDuration, tFinishedAt, tItems>>
    /\ UNCHANGED notTimedVars

\* Continuation of processQueue after the await: the try body (duration
\* measured, runResult built) or the catch body (errorResult), then finally.
TimedSettle(out) ==
    /\ tItem # 0
    /\ tClock = tSettleAt
    /\ LET result == IF ~out.threw
                     THEN RunResultOf(tItem, out, DurationOf(tStart, tClock))
                     ELSE ErrorResultOf(tItem, out.message) IN
          /\ tDuration' = [tDuration EXCEPT ![tItem] = result.duration]
          /\ tOutcome' = [tOutcome EXCEPT
                             ![tItem] = IF out.threw THEN "threw" ELSE "returned"]
    /\ tFinishedAt' = [tFinishedAt EXCEPT ![tItem] = tClock]
    /\ UNCHANGED <<tClock, tLatency, tQueuedAt, tItems>>
    /\ TimedDispatch(tQueue, FALSE)
    /\ UNCHANGED notTimedVars

TimedNext ==
    \/ TimedSubmit
    \/ TimedTick
    \/ \E out \in RunnerOutcomes : TimedSettle(out)

TimedStart ==
    /\ QueueInit
    /\ TimedInit
    /\ HttpIdle
    /\ CleanIdle
    /\ LateIdle

TimedSpec == TimedStart /\ [][TimedNext]_vars

(* ------------------------------ strings ------------------------------- *)

\* The character at position k of string s (1-based), "" outside of it.
Ch(s, k) == IF k \in 1..Len(s) THEN SubSeq(s, k, k) ELSE ""

UpperLetters ==
    { "A", "B", "C", "D", "E", "F", "G", "H", "I", "J", "K", "L",
      "M", "N", "O", "P", "Q", "R", "S", "T", "U", "V", "W", "X",
      "Y", "Z" }

LowerLetters ==
    { "a", "b", "c", "d", "e", "f", "g", "h", "i", "j", "k", "l",
      "m", "n", "o", "p", "q", "r", "s", "t", "u", "v", "w", "x",
      "y", "z" }

Digits == {"0", "1", "2", "3", "4", "5", "6", "7", "8", "9"}

\* \w
WordChars == UpperLetters \cup LowerLetters \cup Digits \cup {"_"}

\* \s
WhiteSpace == {" ", "\t", "\n", "\r"}

Alphabet == "ABCDEFGHIJKLMNOPQRSTUVWXYZabcdefghijklmnopqrstuvwxyz"

\* The lower-case form of a character (the i flag of a regex).
Lower(c) ==
    IF c \in UpperLetters
    THEN LET k == CHOOSE j \in 1..26 : Ch(Alphabet, j) = c IN Ch(Alphabet, k + 26)
    ELSE c

\* The lower-case literal pat occurs in s at position k, ignoring case.
MatchAtCI(s, k, pat) ==
    /\ k + Len(pat) - 1 <= Len(s)
    /\ \A j \in 1..Len(pat) : Lower(Ch(s, k + j - 1)) = Ch(pat, j)

\* /pat/i.test(s) for a literal pattern
ContainsCI(s, pat) == \E k \in 1..Len(s) : MatchAtCI(s, k, pat)

\* The first position from k on whose character is outside class
\* (Len(s) + 1 when there is none): where a greedy class* stops.
Skip(s, k, class) ==
    CHOOSE m \in k..(Len(s) + 1) :
        /\ \A j \in k..(m - 1) : Ch(s, j) \in class
        /\ m = Len(s) + 1 \/ Ch(s, m) \notin class

\* The first position from k on whose character is in class.
SkipTo(s, k, class) ==
    CHOOSE m \in k..(Len(s) + 1) :
        /\ \A j \in k..(m - 1) : Ch(s, j) \notin class
        /\ m = Len(s) + 1 \/ Ch(s, m) \in class

(* ------------------------- POST /api/reschedule ----------------------- *)

\* A body field is absent (undefined) or present with a text.
AbsentField == [present |-> FALSE, text |-> ""]
Field(text) == [present |-> TRUE, text |-> text]

\* !field: undefined or the empty string
Falsy(f) == ~f.present \/ f.text = ""

IsDigit(c) == c \in Digits

\* \s
IsSpace(c) == c \in WhiteSpace

AllDigits(s, from, to) == \A k \in from..to : IsDigit(Ch(s, k))

\* /^[0-9]{2}\/[0-9]{2}\/[0-9]{4}$/.test(s)
MatchesDate(s) ==
    /\ Len(s) = 10
    /\ AllDigits(s, 1, 2)
    /\ Ch(s, 3) = "/"
    /\ AllDigits(s, 4, 5)
    /\ Ch(s, 6) = "/"
    /\ AllDigits(s, 7, 10)

\* (AM|PM) under the i flag, at positions k and k+1
IsAmPm(s, k) ==
    /\ Lower(Ch(s, k)) \in {"a", "p"}
    /\ Lower(Ch(s, k + 1)) = "m"

\* /^[0-9]{1,2}:[0-9]{2}\s?(AM|PM)$/i.test(s)
MatchesTime(s) ==
    \E h \in {1, 2}, sp \in {0, 1} :
        /\ Len(s) = h + 3 + sp + 2
        /\ AllDigits(s, 1, h)
        /\ Ch(s, h + 1) = ":"
        /\ AllDigits(s, h + 2, h + 3)
        /\ sp = 1 => IsSpace(Ch(s, h + 4))
        /\ IsAmPm(s, h + 4 + sp)

DefaultApiKey == "sp-reschedule-2026-secure"

\* const API_KEY = process.env.API_KEY || 'sp-reschedule-2026-secure'
ApiKeyOf(env) == IF env = Unset \/ env = "" THEN DefaultApiKey ELSE env

\* authMiddleware calls next(): no key in force, or the header equals it
AuthPasses(apiKey, provided) ==
    \/ apiKey = ""
    \/ provided = apiKey

\* The values of process.env.API_KEY the server is started with.
EnvKeys == {Unset, "", "configured-key"}

\* The values of the x-api-key header (Unset: no header).
HeaderKeys == {Unset, "wrong-key", DefaultApiKey, "configured-key"}

\* req.body.clientSearch
ClientSearches ==
    { AbsentField,
      Field(""),
      Field("Jane") }

\* req.body.newDate
NewDates ==
    { AbsentField,
      Field("03/05/2026"),
      Field("3/5/2026"),
      Field("03/05/2026\n") }

\* req.body.newTime
NewTimes ==
    { AbsentField,
      Field("03:00 PM"),
      Field("3:00pm"),
      Field("3:00  PM"),
      Field("15:00") }

\* req.body.currentAppointmentDate
CurrentAppointmentDates ==
    { AbsentField,
      Field(""),
      Field("03/06/2026"),
      Field("2026-03-06") }

Requests ==
    [key : HeaderKeys, clientSearch : ClientSearches, newDate : NewDates,
     newTime : NewTimes, currentAppointmentDate : CurrentAppointmentDates]

UnauthorizedError == "Invalid or missing API key"
MissingFieldsError == "Missing required fields: clientSearch, newDate, newTime"
NewDateError == "newDate must be in MM/DD/YYYY format (e.g. \"03/05/2026\")"
NewTimeError == "newTime must be in HH:MM AM/PM format (e.g. \"03:00 PM\")"
CurrentDateError ==
    "currentAppointmentDate must be in MM/DD/YYYY format (e.g. \"03/06/2026\")"

Rejection(status, error) ==
    [status |-> status, success |-> FALSE, error |-> error]

\* Mutant: the queue limit is checked before the body is validated.
PostOutcomeLimitFirst(apiKey, req, q) ==
    IF ~AuthPasses(apiKey, req.key)
    THEN Rejection(401, UnauthorizedError)
    ELSE IF QueueIsFull(q)
    THEN Rejection(429, QueueFullError)
    ELSE IF Falsy(req.clientSearch) \/ Falsy(req.newDate) \/ Falsy(req.newTime)
    THEN Rejection(400, MissingFieldsError)
    ELSE IF ~MatchesDate(req.newDate.text)
    THEN Rejection(400, NewDateError)
    ELSE IF ~MatchesTime(req.newTime.text)
    THEN Rejection(400, NewTimeError)
    ELSE IF /\ ~Falsy(req.currentAppointmentDate)
            /\ ~MatchesDate(req.currentAppointmentDate.text)
    THEN Rejection(400, CurrentDateError)
    ELSE None

\* authMiddleware, then the handler up to the queue limit check: the
\* response sent synchronously, None when the request goes on to enqueue.
PostOutcome(apiKey, req, q) ==
    IF ~AuthPasses(apiKey, req.key)
    THEN Rejection(401, UnauthorizedError)
    ELSE IF Falsy(req.clientSearch) \/ Falsy(req.newDate) \/ Falsy(req.newTime)
    THEN Rejection(400, MissingFieldsError)
    ELSE IF ~MatchesDate(req.newDate.text)
    THEN Rejection(400, NewDateError)
    ELSE IF ~MatchesTime(req.newTime.text)
    THEN Rejection(400, NewTimeError)
    ELSE IF /\ ~Falsy(req.currentAppointmentDate)
            /\ ~MatchesDate(req.currentAppointmentDate.text)
    THEN Rejection(400, CurrentDateError)
    ELSE IF QueueIsFull(q)
    THEN Rejection(429, QueueFullError)
    ELSE None

HttpInit ==
    /\ hEnvKey \in EnvKeys
    /\ hQueue = <<>>
    /\ hRunning = FALSE
    /\ hItem = 0
    /\ hItems = 0
    /\ hTimers = {}
    /\ hPhase = "idle"
    /\ hReq = None
    /\ hResp = None

\* processQueue() up to the await
HttpDispatch(q, running) ==
    LET pq == ProcessQueue(q, running, Null, NoneTimedOut) IN
    /\ hQueue' = pq.queue
    /\ hRunning' = pq.isRunning
    /\ hItem' = IF pq.item # 0 THEN pq.item
                ELSE IF running THEN hItem ELSE 0

\* A POST /api/reschedule arrives and express.json() parses its body.
HttpReceive(req) ==
    /\ hPhase = "idle"
    /\ hPhase' = "received"
    /\ hReq' = req
    /\ UNCHANGED <<hEnvKey, hQueue, hRunning, hItem, hItems, hTimers, hResp>>
    /\ UNCHANGED notHttpVars

\* authMiddleware and the route handler run for the request received:
\* rejected with 401, 400 or 429, or enqueued (item created, timer armed,
\* processQueue called).
HttpPost ==
    LET sync == PostOutcome(ApiKeyOf(hEnvKey), hReq, hQueue) IN
    /\ hPhase = "received"
    /\ sync = None => hItems < MaxHttpItems
    /\ hResp' = sync
    /\ IF sync # None
       THEN /\ hPhase' = "answered"
            /\ UNCHANGED <<hQueue, hRunning, hItem, hItems, hTimers>>
       ELSE /\ hPhase' = "queued"
            /\ hItems' = hItems + 1
            /\ hTimers' = hTimers \cup {hItems + 1}
            /\ HttpDispatch(Append(hQueue, hItems + 1), hRunning)
    /\ UNCHANGED <<hEnvKey, hReq>>
    /\ UNCHANGED notHttpVars

\* The handler of the latest POST has returned; the next one can arrive.
HttpReturn ==
    /\ hPhase \in {"answered", "queued"}
    /\ hPhase' = "idle"
    /\ hReq' = None
    /\ hResp' = None
    /\ UNCHANGED <<hEnvKey, hQueue, hRunning, hItem, hItems, hTimers>>
    /\ UNCHANGED notHttpVars

\* The awaited runner call settles: finally, then processQueue().
HttpSettle ==
    /\ hItem # 0
    /\ HttpDispatch(hQueue, FALSE)
    /\ UNCHANGED <<hEnvKey, hItems, hTimers, hPhase, hReq, hResp>>
    /\ UNCHANGED notHttpVars

HttpNext ==
    \/ \E req \in Requests : HttpReceive(req)
    \/ HttpPost
    \/ HttpReturn
    \/ HttpSettle

HttpStart ==
    /\ QueueInit
    /\ TimedIdle
    /\ HttpInit
    /\ CleanIdle
    /\ LateIdle

HttpSpec == HttpStart /\ [][HttpNext]_vars

(* ------------------------ rejected submissions ------------------------ *)

\* The 401 and 400 responses that authMiddleware and the validation of
\* the handler send for the requests of Requests under the keys of EnvKeys.
SyncRejections ==
    {r \in {PostOutcome(ApiKeyOf(k), req, <<>>) : k \in EnvKeys, req \in Requests} :
        r # None}

\* POST /api/reschedule answered with 401 by authMiddleware or with 400 by
\* the validation of the handler: the handler returns before enqueue.
PostRejected ==
    /\ Alive
    /\ \E r \in SyncRejections : lastSync' = r
    /\ Resolve(<<>>)
    /\ UNCHANGED <<queue, timedOut, timer, isRunning, startedAt, inflight,
                   dispatchCount, totalProcessed, totalSuccess, totalFailed,
                   lastResult, nItems, listening, signals, process>>
    /\ UNCHANGED auxVars

\* The queueing server with the rejected submissions, which Next leaves out
\* because they reach no statement that reads or writes the queue state.
RejectNext ==
    \/ Next
    \/ PostRejected

RejectSpec == Init /\ [][RejectNext]_vars

(* ----------------------- process-level errors ------------------------ *)

\* Mutant: the handler ends the process, as Node does without a handler.
UncaughtExceptionExits ==
    /\ Alive
    /\ eLogged < MaxErrors
    /\ eLogged' = eLogged + 1
    /\ process' = "exit(1)"
    /\ UNCHANGED <<queue, timedOut, timer, isRunning, startedAt, inflight,
                   dispatchCount, resolveCount, resolvedNow, sentNow,
                   totalProcessed, totalSuccess, totalFailed, lastResult,
                   nItems, lastSync, listening, signals>>
    /\ UNCHANGED notErrVars

\* process.on('uncaughtException', (err) => { log(...); console.error(...) })
UncaughtException ==
    /\ Alive
    /\ eLogged < MaxErrors
    /\ eLogged' = eLogged + 1
    /\ UNCHANGED queueVars
    /\ UNCHANGED notErrVars

\* process.on('unhandledRejection', (reason) => { log(...) })
UnhandledRejection ==
    /\ Alive
    /\ eLogged < MaxErrors
    /\ eLogged' = eLogged + 1
    /\ UNCHANGED queueVars
    /\ UNCHANGED notErrVars

\* The queueing server with the process-level error events, which Next
\* leaves out.
ErrNext ==
    \/ Next
    \/ UncaughtException
    \/ UnhandledRejection

ErrSpec == Init /\ [][ErrNext]_vars

(* ---------------------------- request ids ----------------------------- *)

\* One digit of Buffer.toString('hex').
HexDigit(n) == SubSeq("0123456789abcdef", n + 1, n + 1)

\* Buffer.toString('hex'): two digits per byte.
RECURSIVE ToHex(_)
ToHex(bytes) ==
    IF bytes = <<>> THEN ""
    ELSE HexDigit(Head(bytes) \div 16) \o HexDigit(Head(bytes) % 16)
         \o ToHex(Tail(bytes))

\* crypto.randomBytes(IdBytes): any sequence of bytes.
RandomBytes == [1..IdBytes -> 0..MaxByte]

\* The ids generateRequestId() can return.
RequestIds == {ToHex(b) : b \in RandomBytes}

IdInit ==
    /\ rIds = <<>>
    /\ rQueue = <<>>
    /\ rItem = 0

\* processQueue() up to the await
IdDispatch(q, running) ==
    LET pq == ProcessQueue(q, running, Null, NoneTimedOut) IN
    /\ rQueue' = pq.queue
    /\ rItem' = IF pq.item # 0 THEN pq.item
                ELSE IF running THEN rItem ELSE 0

\* POST /api/reschedule with a valid body and room in the queue: the
\* handler draws requestId = generateRequestId() and enqueues the item.
IdSubmit(bytes) ==
    /\ Len(rIds) < MaxIdItems
    /\ ~QueueIsFull(rQueue)
    /\ rIds' = Append(rIds, ToHex(bytes))
    /\ IdDispatch(Append(rQueue, Len(rIds) + 1), rItem # 0)
    /\ UNCHANGED notIdVars

\* The awaited runner call settles: finally, then processQueue().
IdSettle ==
    /\ rItem # 0
    /\ IdDispatch(rQueue, FALSE)
    /\ UNCHANGED rIds
    /\ UNCHANGED notIdVars

IdNext ==
    \/ \E bytes \in RandomBytes : IdSubmit(bytes)
    \/ IdSettle

IdStart ==
    /\ QueueInit
    /\ TimedIdle
    /\ HttpIdle
    /\ CleanIdle
    /\ IdInit
    /\ ErrIdle
    /\ RunIdle
    /\ ChildInit

IdSpec == IdStart /\ [][IdNext]_vars

(* ------------------------- cleanErrorMessage -------------------------- *)

\* s.trim()
Trim(s) ==
    LET a == Skip(s, 1, WhiteSpace)
        b == CHOOSE m \in 0..Len(s) :
                 /\ m = 0 \/ Ch(s, m) \notin WhiteSpace
                 /\ \A j \in (m + 1)..Len(s) : Ch(s, j) \in WhiteSpace
    IN  IF a > b THEN "" ELSE SubSeq(s, a, b)

\* /=+\s*logs\s*=+[\s\S]*?=+/i tried at position p, the start of a run of
\* "=": the position of the last character matched, 0 when there is no
\* match.  After the second run of "=" the lazy [\s\S]*? runs up to the
\* next "=" and the final =+ takes that whole run; when no "=" follows, the
\* second run gives back its last "=" to the final =+.
LogBlockEnd(s, p) ==
    LET e1 == Skip(s, p, {"="})
        l == Skip(s, e1, WhiteSpace)
        a2 == Skip(s, l + 4, WhiteSpace)
        e2 == Skip(s, a2, {"="})
        c == SkipTo(s, e2, {"="})
    IN  IF ~MatchAtCI(s, l, "logs") \/ e2 = a2 THEN 0
        ELSE IF c <= Len(s) THEN Skip(s, c, {"="}) - 1
        ELSE IF e2 - a2 >= 2 THEN e2 - 1
        ELSE 0

\* raw.replace(/=+\s*logs\s*=+[\s\S]*?=+/gi, ''), from position k on.  A
\* match that fails at the start of a run of "=" fails at every position of
\* that run.
RECURSIVE StripLogBlocks(_, _)
StripLogBlocks(s, k) ==
    LET p == SkipTo(s, k, {"="}) IN
    IF p > Len(s) THEN SubSeq(s, k, Len(s))
    ELSE LET e == LogBlockEnd(s, p) IN
         IF e = 0
         THEN SubSeq(s, k, Skip(s, p, {"="}) - 1)
                  \o StripLogBlocks(s, Skip(s, p, {"="}))
         ELSE SubSeq(s, k, p - 1) \o StripLogBlocks(s, e + 1)

\* \w+(\.\w+)*: from position k on: the position of the ":", 0 when there
\* is no match.
RECURSIVE MethodPathEnd(_, _)
MethodPathEnd(s, k) ==
    LET e == Skip(s, k, WordChars) IN
    IF e = k \/ e > Len(s) THEN 0
    ELSE IF Ch(s, e) = ":" THEN e
    ELSE IF Ch(s, e) = "." THEN MethodPathEnd(s, e + 1)
    ELSE 0

ContextWords == {"page", "locator", "browser", "context"}

\* msg.replace(/^(page|locator|browser|context)\.\w+(\.\w+)*:\s*/i, '')
StripPrefix(s) ==
    IF \E w \in ContextWords :
           /\ MatchAtCI(s, 1, w)
           /\ Ch(s, Len(w) + 1) = "."
           /\ MethodPathEnd(s, Len(w) + 2) # 0
    THEN LET w == CHOOSE w \in ContextWords : MatchAtCI(s, 1, w)
             colon == MethodPathEnd(s, Len(w) + 2)
         IN  SubSeq(s, Skip(s, colon + 1, WhiteSpace), Len(s))
    ELSE s

\* /timeout\s*\d+ms\s*exceeded/i.test(s)
TimeoutExceeded(s) ==
    \E k \in 1..Len(s) :
        /\ MatchAtCI(s, k, "timeout")
        /\ LET d == Skip(s, k + 7, WhiteSpace)
               m == Skip(s, d, Digits)
           IN  /\ m > d
               /\ MatchAtCI(s, m, "ms")
               /\ MatchAtCI(s, Skip(s, m + 2, WhiteSpace), "exceeded")

\* s.replace(/\n+/g, ' '), from position k on
RECURSIVE CollapseNewlines(_, _)
CollapseNewlines(s, k) ==
    LET p == SkipTo(s, k, {"\n"}) IN
    IF p > Len(s) THEN SubSeq(s, k, Len(s))
    ELSE SubSeq(s, k, p - 1) \o " " \o CollapseNewlines(s, Skip(s, p, {"\n"}))

\* s.replace(/\s{2,}/g, ' '), from position k on
RECURSIVE CollapseSpaces(_, _)
CollapseSpaces(s, k) ==
    LET p == SkipTo(s, k, WhiteSpace)
        e == Skip(s, p, WhiteSpace)
    IN  IF p > Len(s) THEN SubSeq(s, k, Len(s))
        ELSE IF e - p >= 2
        THEN SubSeq(s, k, p - 1) \o " " \o CollapseSpaces(s, e)
        ELSE SubSeq(s, k, p) \o CollapseSpaces(s, e)

LoginTimedOut ==
    "Login timed out. SimplePractice may be slow or credentials may be incorrect."
PageLoadTimedOut ==
    "Page took too long to load. SimplePractice may be experiencing slowness."
SearchTimedOut ==
    "Client search timed out. The search box did not appear in time."
FormTimedOut == "Appointment form did not load in time."
OperationTimedOut ==
    "Operation timed out. SimplePractice may be slow or unresponsive. Please try again."
CleanFallback == "An unexpected error occurred during the reschedule process."

\* The tests made on the raw text inside the timeout branch.
IsLoginTimeout(raw) ==
    ContainsCI(raw, "waitforurl") \/ ContainsCI(raw, "secure.simplepractice")
IsPageLoadTimeout(raw) == ContainsCI(raw, "waitforloadstate")
IsSearchTimeout(raw) == ContainsCI(raw, "waitfor") /\ ContainsCI(raw, "search")
IsFormTimeout(raw) == ContainsCI(raw, "waitfor") /\ ContainsCI(raw, "start date")

\* Mutant: the search test is made first.
TimeoutSentenceSearchFirst(raw) ==
    IF IsSearchTimeout(raw) THEN SearchTimedOut
    ELSE IF IsLoginTimeout(raw) THEN LoginTimedOut
    ELSE IF IsPageLoadTimeout(raw) THEN PageLoadTimedOut
    ELSE IF IsFormTimeout(raw) THEN FormTimedOut
    ELSE OperationTimedOut

\* The body of `if (/timeout\s*\d+ms\s*exceeded/i.test(msg)) { ... }`
TimeoutSentence(raw) ==
    IF IsLoginTimeout(raw) THEN LoginTimedOut
    ELSE IF IsPageLoadTimeout(raw) THEN PageLoadTimedOut
    ELSE IF IsSearchTimeout(raw) THEN SearchTimedOut
    ELSE IF IsFormTimeout(raw) THEN FormTimedOut
    ELSE OperationTimedOut

\* One of the three "no ... appointment" tests holds of msg.
IsNoAppointment(msg) ==
    \/ ContainsCI(msg, "no upcoming appointments")
    \/ ContainsCI(msg, "no clickable appointment")
    \/ ContainsCI(msg, "no appointment found matching")

\* The first two statements: log blocks and the leading qualifier removed.
Stripped(raw) == Trim(StripPrefix(Trim(StripLogBlocks(raw, 1))))

\* msg.length > 200 ? msg.substring(0, 200) + '...' : msg
Truncate(msg) ==
    IF Len(msg) > MaxMessageLength THEN SubSeq(msg, 1, MaxMessageLength) \o "..." ELSE msg

cleanErrorMessage(raw) ==
    LET msg == Stripped(raw) IN
    IF TimeoutExceeded(msg) THEN TimeoutSentence(raw)
    ELSE IF IsNoAppointment(msg) THEN msg
    ELSE LET flat == Trim(CollapseSpaces(CollapseNewlines(msg, 1), 1))
             cut == Truncate(flat)
         IN  IF cut = "" THEN CleanFallback ELSE cut

RECURSIVE Repeat(_, _)
Repeat(s, n) == IF n = 0 THEN "" ELSE s \o Repeat(s, n - 1)

\* The messages of the errors the runner throws itself.
NoUpcoming(client) ==
    "No upcoming appointments found for client \"" \o client \o "\"."
NoClickable(client) ==
    "No clickable appointment link found for client \"" \o client \o "\"."
NoMatching(date, client, count) ==
    "No appointment found matching date \"" \o date \o "\" for client \""
        \o client \o "\". Found " \o count
        \o " appointment(s) but none matched."

\* data.clientSearch: any non-empty text of the request body
ClientNames == {"Jane", "Jane\nDoe", Repeat("Anna ", 50)}

RunnerThrows ==
    {NoUpcoming(c) : c \in ClientNames}
        \cup {NoClickable(c) : c \in ClientNames}
        \cup {NoMatching("03/06/2026", c, "2") : c \in ClientNames}

\* The example of the specification's testable properties.
SearchExample == "Timeout 30000ms exceeded waiting for locator('...Search...')"

\* "component.method:" qualifiers Playwright puts in front of a message
Prefixes ==
    {"", "page.waitForURL: ", "page.waitForLoadState: ", "locator.waitFor: ",
     "locator.click: ", "browserContext.newPage: "}

Bodies ==
    RunnerThrows
        \cup {SearchExample,
              "Timeout 30000ms exceeded.",
              "net::ERR_CONNECTION_RESET at https://secure.simplepractice.com/",
              "Target page, context or browser has been closed",
              Repeat("element is not visible; ", 12),
              ""}

\* What follows the first line of a Playwright message: a log block, a
\* call log, further lines.
Tails ==
    {"",
     "\n=========================== logs ===========================\nwaiting for navigation to \"**/secure.simplepractice.com/**\" until \"load\"\n============================================================",
     "\nCall log:\n  - waiting for getByPlaceholder('Search') to be visible",
     "\nCall log:\n  - waiting for getByRole('textbox', { name: /start date/i })",
     "\n=== logs ===\nnavigated to \"about:blank\"",
     "\n\n   at  step   7\n"}

\* error.message, the argument of cleanErrorMessage
RawTexts == {p \o b \o t : p \in Prefixes, b \in Bodies, t \in Tails}

CleanInit ==
    /\ cRaw \in RawTexts
    /\ cDone = FALSE
    /\ cMsg = ""

\* catch (error): friendlyMessage = cleanErrorMessage(error.message)
CleanError ==
    /\ ~cDone
    /\ cDone' = TRUE
    /\ cMsg' = cleanErrorMessage(cRaw)
    /\ UNCHANGED cRaw
    /\ UNCHANGED notCleanVars

CleanNext == CleanError

CleanStart ==
    /\ QueueInit
    /\ TimedIdle
    /\ HttpIdle
    /\ CleanInit
    /\ LateIdle

CleanSpec == CleanStart /\ [][CleanNext]_vars

(* ----------------------- rescheduleAppointment ------------------------ *)

\* The value of a decimal digit character.
DigitValue(c) == CHOOSE n \in 0..9 : Ch("0123456789", n + 1) = c

\* parseInt(s) for a string of decimal digits, from digit k on with the
\* value acc read so far.
RECURSIVE ParseDigits(_, _, _)
ParseDigits(s, k, acc) ==
    IF k > Len(s) \/ ~IsDigit(Ch(s, k)) THEN acc
    ELSE ParseDigits(s, k + 1, 10 * acc + DigitValue(Ch(s, k)))

\* parseInt(s)
parseInt(s) == ParseDigits(s, 1, 0)

\* n.toString() for n >= 0
RECURSIVE ToDecimal(_)
ToDecimal(n) ==
    IF n < 10 THEN Ch("0123456789", n + 1)
    ELSE ToDecimal(n \div 10) \o Ch("0123456789", (n % 10) + 1)

\* s.split('/'), from position k on
RECURSIVE SplitSlash(_, _)
SplitSlash(s, k) ==
    LET p == SkipTo(s, k, {"/"}) IN
    IF p > Len(s) THEN <<SubSeq(s, k, Len(s))>>
    ELSE <<SubSeq(s, k, p - 1)>> \o SplitSlash(s, p + 1)

\* s.includes(sub), case-sensitive
Includes(s, sub) ==
    \E k \in 1..(Len(s) - Len(sub) + 1) : SubSeq(s, k, k + Len(sub) - 1) = sub

IsLeapYear(y) == (y % 4 = 0 /\ y % 100 # 0) \/ y % 400 = 0

\* The number of days of month m (0-based) of year y.
DaysInMonth(y, m) ==
    IF m = 1 THEN (IF IsLeapYear(y) THEN 29 ELSE 28)
    ELSE IF m \in {3, 5, 8, 10} THEN 30
    ELSE 31

\* Date normalisation of a day number past the end of month m of year y.
RECURSIVE CarryDays(_, _, _)
CarryDays(y, m, d) ==
    IF d <= DaysInMonth(y, m) THEN [year |-> y, month |-> m, date |-> d]
    ELSE IF m = 11 THEN CarryDays(y + 1, 0, d - DaysInMonth(y, m))
    ELSE CarryDays(y, m + 1, d - DaysInMonth(y, m))

\* new Date(year, monthIndex, day): years 0..99 mean 1900..1999, a month
\* index outside 0..11 and a day outside the month carry over.
NewDate(year, monthIndex, day) ==
    LET y0 == IF year \in 0..99 THEN 1900 + year ELSE year
        y  == IF monthIndex < 0 THEN y0 - 1 ELSE y0 + (monthIndex \div 12)
        m  == IF monthIndex < 0 THEN 11 ELSE monthIndex % 12
    IN  IF day = 0
        THEN (IF m = 0
              THEN [year |-> y - 1, month |-> 11, date |-> 31]
              ELSE [year |-> y, month |-> m - 1,
                    date |-> DaysInMonth(y, m - 1)])
        ELSE CarryDays(y, m, day)

monthNames ==
    <<"Jan", "Feb", "Mar", "Apr", "May", "Jun", "Jul", "Aug", "Sep", "Oct",
      "Nov", "Dec">>

\* possibleFormats for a currentAppointmentDate of the form MM/DD/YYYY
possibleFormats(currentAppointmentDate) ==
    LET parts == SplitSlash(currentAppointmentDate, 1)
        mm == parts[1]
        dd == parts[2]
        yyyy == parts[3]
        dateObj == NewDate(parseInt(yyyy), parseInt(mm) - 1, parseInt(dd))
        monthShort == monthNames[dateObj.month + 1]
        dayNum == ToDecimal(dateObj.date)
    IN  << monthShort \o " " \o dayNum \o ", " \o yyyy,
           monthShort \o " " \o dd \o ", " \o yyyy,
           currentAppointmentDate,
           mm \o "/" \o dd \o "/" \o yyyy >>

\* possibleFormats.some(fmt => apptText.includes(fmt))
MatchesFormats(apptText, formats) ==
    \E k \in 1..Len(formats) : Includes(apptText, formats[k])

\* The params a call is made with.  The server passes
\* currentAppointmentDate only when it is non-empty and of the form
\* MM/DD/YYYY; a direct caller may pass the empty string.
RunParams ==
    [clientSearch : {"Jane"}, newDate : {"03/09/2026"}, newTime : {"03:00 PM"},
     currentAppointmentDate :
        {AbsentField, Field(""), Field("03/06/2026"), Field("02/30/2026")}]

\* (await apptLink.textContent()) || '' of an upcoming appointment link
ApptTexts ==
    {"", "Mar 6, 2026 10:00 AM", "Fri 03/06/2026 Office visit",
     "Mar 16, 2026 9:00 AM", "Mar 30, 2026 2:00 PM"}

RECURSIVE SeqsUpTo(_, _)
SeqsUpTo(S, n) ==
    IF n = 0 THEN {<<>>}
    ELSE LET shorter == SeqsUpTo(S, n - 1)
         IN  shorter \cup {Append(q, x) : q \in shorter, x \in S}

\* The lists of upcoming appointment links the page can show.
ApptLists == SeqsUpTo(ApptTexts, MaxAppointments)

\* error.message of what an awaited Playwright call throws
StepErrors == {"locator.waitFor: Timeout 15000ms exceeded.", ""}

\* What browser.close() throws when it fails.
CloseError == "browser.close: Connection closed"

RescheduledMessage(data) ==
    "Appointment rescheduled to " \o data.newDate \o " at " \o data.newTime
NoChangesMessage(data) ==
    "No changes needed. Appointment was already at " \o data.newDate
        \o " " \o data.newTime

\* new Error(message), or what an awaited call throws
Thrown(message) == [message |-> message]

\* error.message || 'Unknown error'
MessageOf(error) ==
    IF error.message = "" THEN "Unknown error" ELSE error.message

\* The index of the first link whose text matches, 0 when none does:
\* for (let i = 0; i < appointmentCount; i++) { ... break; }
FirstMatch(appts, formats) ==
    IF \E i \in 1..Len(appts) : MatchesFormats(appts[i], formats)
    THEN CHOOSE i \in 1..Len(appts) :
            /\ MatchesFormats(appts[i], formats)
            /\ \A j \in 1..(i - 1) : ~MatchesFormats(appts[j], formats)
    ELSE 0

\* Mutant: the loop has no break, the last matching link is kept.
SelectTargetLastMatch(data, appts) ==
    IF Len(appts) = 0
    THEN [target |-> 0, error |-> Thrown(NoClickable(data.clientSearch))]
    ELSE IF ~Falsy(data.currentAppointmentDate)
    THEN LET date == data.currentAppointmentDate.text
             formats == possibleFormats(date)
             hits == {i \in 1..Len(appts) : MatchesFormats(appts[i], formats)}
         IN  IF hits = {}
             THEN [target |-> 0,
                   error |-> Thrown(NoMatching(date, data.clientSearch,
                                               ToDecimal(Len(appts))))]
             ELSE [target |-> CHOOSE i \in hits : \A j \in hits : j <= i,
                   error |-> None]
    ELSE [target |-> 1, error |-> None]

\* Step 6 of the workflow: the choice of targetAppointment, or the error
\* thrown.
SelectTarget(data, appts) ==
    IF Len(appts) = 0
    THEN [target |-> 0, error |-> Thrown(NoClickable(data.clientSearch))]
    ELSE IF ~Falsy(data.currentAppointmentDate)
    THEN LET date == data.currentAppointmentDate.text
             m == FirstMatch(appts, possibleFormats(date))
         IN  IF m = 0
             THEN [target |-> 0,
                   error |-> Thrown(NoMatching(date, data.clientSearch,
                                               ToDecimal(Len(appts))))]
             ELSE [target |-> m, error |-> None]
    ELSE [target |-> 1, error |-> None]

RunInit ==
    /\ wData \in RunParams
    /\ wAppts \in ApptLists
    /\ wPc = "start"
    /\ wBrowser = "null"
    /\ wTarget = 0
    /\ wError = None
    /\ wPending = None
    /\ wSettled = None
    /\ wModified = FALSE

\* throw inside the try block: control goes to the catch clause
Throw(message) ==
    /\ wError' = Thrown(message)
    /\ wPc' = "catch"

\* browser = await chromium.launch({ headless: true })
RunLaunch ==
    /\ wPc = "start"
    /\ \/ /\ wBrowser' = "open"
          /\ wPc' = "workflow"
          /\ UNCHANGED wError
       \/ /\ \E e \in StepErrors : Throw(e)
          /\ UNCHANGED wBrowser
    /\ UNCHANGED <<wData, wAppts, wTarget, wPending, wSettled, wModified>>
    /\ UNCHANGED notRunVars

\* Steps 1 to 5: login, calendar, client search, upcoming appointments.
RunWorkflow ==
    /\ wPc = "workflow"
    /\ \/ \E e \in StepErrors : Throw(e)
       \/ Throw(NoUpcoming(wData.clientSearch))
       \/ /\ wPc' = "select"
          /\ UNCHANGED wError
    /\ UNCHANGED <<wData, wAppts, wBrowser, wTarget, wPending, wSettled,
                   wModified>>
    /\ UNCHANGED notRunVars

\* Step 6: count the links and choose the target appointment.
RunSelect ==
    /\ wPc = "select"
    /\ LET sel == SelectTarget(wData, wAppts) IN
          IF sel.error # None
          THEN /\ Throw(sel.error.message)
               /\ UNCHANGED wTarget
          ELSE /\ wTarget' = sel.target
               /\ wPc' = "form"
               /\ UNCHANGED wError
    /\ UNCHANGED <<wData, wAppts, wBrowser, wPending, wSettled, wModified>>
    /\ UNCHANGED notRunVars

\* Steps 6 (click) to 9: open the appointment, type the date and the time.
RunEdit ==
    /\ wPc = "form"
    /\ \/ \E e \in StepErrors : Throw(e)
       \/ /\ wPc' = "save"
          /\ UNCHANGED wError
    /\ UNCHANGED <<wData, wAppts, wBrowser, wTarget, wPending, wSettled,
                   wModified>>
    /\ UNCHANGED notRunVars

\* Steps 10 and 11: return early when Save is disabled, else click Save
\* and return.
RunSave ==
    /\ wPc = "save"
    /\ \/ /\ wPending' = [success |-> TRUE, message |-> NoChangesMessage(wData)]
          /\ wPc' = "finally"
          /\ UNCHANGED <<wError, wModified>>
       \/ /\ \E e \in StepErrors : Throw(e)
          /\ UNCHANGED <<wPending, wModified>>
       \/ /\ wModified' = TRUE
          /\ wPending' = [success |-> TRUE, message |-> RescheduledMessage(wData)]
          /\ wPc' = "finally"
          /\ UNCHANGED wError
    /\ UNCHANGED <<wData, wAppts, wBrowser, wTarget, wSettled>>
    /\ UNCHANGED notRunVars

\* catch (error): return { success: false, message: friendlyMessage }
RunCatch ==
    /\ wPc = "catch"
    /\ wPending' =
          [success |-> FALSE,
           message |-> cleanErrorMessage(MessageOf(wError))]
    /\ wPc' = "finally"
    /\ UNCHANGED <<wData, wAppts, wBrowser, wTarget, wError, wSettled,
                   wModified>>
    /\ UNCHANGED notRunVars

\* finally { if (browser) await browser.close(); }: the promise is
\* fulfilled with the value returned, unless browser.close() throws, which
\* replaces the return.
RunFinally ==
    /\ wPc = "finally"
    /\ IF wBrowser # "null"
       THEN \/ /\ wBrowser' = "closed"
               /\ wSettled' = [state |-> "fulfilled", value |-> wPending]
            \/ /\ UNCHANGED wBrowser
               /\ wSettled' = [state |-> "rejected", reason |-> CloseError]
       ELSE /\ UNCHANGED wBrowser
            /\ wSettled' = [state |-> "fulfilled", value |-> wPending]
    /\ wPc' = "done"
    /\ UNCHANGED <<wData, wAppts, wTarget, wError, wPending, wModified>>
    /\ UNCHANGED notRunVars

RunNext ==
    \/ RunLaunch
    \/ RunWorkflow
    \/ RunSelect
    \/ RunEdit
    \/ RunSave
    \/ RunCatch
    \/ RunFinally

RunnerStart ==
    /\ QueueInit
    /\ TimedIdle
    /\ HttpIdle
    /\ CleanIdle
    /\ IdIdle
    /\ ErrIdle
    /\ RunInit
    /\ ChildInit

RunSpec == RunnerStart /\ [][RunNext]_vars

(* ---------------------- child-process server -------------------------- *)

\* req.body as RescheduleBody
ChildBodies ==
    LET body(c, d, t) == [clientSearch |-> c, newDate |-> d, newTime |-> t]
    IN  { body(Field("Jane"), Field("03/05/2026"), Field("03:00 PM")),
          body(AbsentField, Field("03/05/2026"), Field("03:00 PM")),
          body(Field("Jane"), Field("3/5/2026"), Field("03:00 PM")),
          body(Field("Jane"), Field("03/05/2026"), Field("15:00")) }

\* Stands for code === null in the 'close' event: the child was ended by
\* a signal.
NullCode == 2

\* code of the 'close' event: 0, non-zero, or null when the child was
\* ended by the signal of its kill timer.
ExitCodes(signalled) == IF signalled THEN {0, 1, NullCode} ELSE {0, 1}

\* Mutant: the isRunning check is missing.
ChildPostStatusNoGuard(body, running) ==
    IF Falsy(body.clientSearch) \/ Falsy(body.newDate) \/ Falsy(body.newTime)
    THEN 400
    ELSE IF ~MatchesDate(body.newDate.text)
    THEN 400
    ELSE IF ~MatchesTime(body.newTime.text)
    THEN 400
    ELSE 0

\* The status the handler answers with before any run, 0 when it goes on
\* to start one.
ChildPostStatus(body, running) ==
    IF Falsy(body.clientSearch) \/ Falsy(body.newDate) \/ Falsy(body.newTime)
    THEN 400
    ELSE IF ~MatchesDate(body.newDate.text)
    THEN 400
    ELSE IF ~MatchesTime(body.newTime.text)
    THEN 400
    ELSE IF running
    THEN 429
    ELSE 0

ChildResponse(body, status, success) ==
    [body |-> body, status |-> status, success |-> success]

\* finally { isRunning = false; currentProcess = null; startedAt = null; }
ChildReset ==
    /\ kIsRunning' = FALSE
    /\ kCurrentProcess' = None
    /\ kStartedAt' = None

\* app.post('/api/reschedule'): up to the await of runPlaywrightTest.  The
\* spawn call may throw inside the promise executor; the promise is then
\* rejected and the handler answers 500 before any other event is served.
ChildPost(body, spawned) ==
    /\ Len(kResponses) < MaxChildRequests
    /\ LET status == ChildPostStatus(body, kIsRunning)
           r == Len(kResponses) + 1
           c == Len(kOwner) + 1
       IN  IF status # 0
           THEN /\ kResponses' = Append(kResponses,
                                        ChildResponse(body, status, FALSE))
                /\ UNCHANGED <<kIsRunning, kCurrentProcess, kStartedAt,
                               kChildren, kTimers, kOwner>>
           ELSE IF spawned
           THEN /\ kIsRunning' = TRUE
                /\ kStartedAt' = [at |-> kNow]
                /\ kCurrentProcess' = [pid |-> c]
                /\ kChildren' = kChildren \cup {c}
                /\ kTimers' = kTimers \cup {c}
                /\ kOwner' = Append(kOwner, r)
                /\ kResponses' = Append(kResponses,
                                        ChildResponse(body, 0, FALSE))
           ELSE /\ ChildReset
                /\ kResponses' = Append(kResponses,
                                        ChildResponse(body, 500, FALSE))
                /\ UNCHANGED <<kChildren, kTimers, kOwner>>
    /\ UNCHANGED <<kSignalled, kNow>>
    /\ UNCHANGED <<queueVars, notChildVars>>

\* The kill timer of child c fires: testProcess.kill('SIGTERM').
ChildTimeout(c) ==
    /\ c \in kTimers
    /\ kTimers' = kTimers \ {c}
    /\ kSignalled' = kSignalled \cup {c}
    /\ UNCHANGED <<kIsRunning, kCurrentProcess, kStartedAt, kChildren, kOwner,
                   kResponses, kNow>>
    /\ UNCHANGED <<queueVars, notChildVars>>

\* testProcess.on('close'): the promise resolves, the awaiting handler
\* sends the result and runs its finally block.
ChildClose(c, code) ==
    /\ c \in kChildren
    /\ code \in ExitCodes(c \in kSignalled)
    /\ kChildren' = kChildren \ {c}
    /\ kTimers' = kTimers \ {c}
    /\ kResponses' =
          [kResponses EXCEPT ![kOwner[c]] =
              ChildResponse(@.body, 200, code = 0)]
    /\ ChildReset
    /\ UNCHANGED <<kSignalled, kOwner, kNow>>
    /\ UNCHANGED <<queueVars, notChildVars>>

\* Time passes.
ChildTick ==
    /\ kNow < MaxChildClock
    /\ kNow' = kNow + 1
    /\ UNCHANGED <<kIsRunning, kCurrentProcess, kStartedAt, kChildren, kTimers,
                   kSignalled, kOwner, kResponses>>
    /\ UNCHANGED <<queueVars, notChildVars>>

ChildNext ==
    \/ \E body \in ChildBodies, spawned \in BOOLEAN : ChildPost(body, spawned)
    \/ \E c \in kTimers : ChildTimeout(c)
    \/ \E c \in kChildren, code \in ExitCodes(TRUE) : ChildClose(c, code)
    \/ ChildTick

ChildStart ==
    /\ QueueInit
    /\ TimedIdle
    /\ HttpIdle
    /\ CleanIdle
    /\ IdIdle
    /\ ErrIdle
    /\ RunIdle
    /\ ChildInit

ChildSpec == ChildStart /\ [][ChildNext]_vars

(* ------------------------------ claims -------------------------------- *)

Created(i) == i <= nItems
Dispatched(i) == dispatchCount[i] > 0
Resolved(i) == resolveCount[i] > 0

\* The latest handler resolved item i through path `via`.
ResolvedNowVia(i, via) ==
    \E k \in 1..Len(resolvedNow) :
        resolvedNow[k].item = i /\ resolvedNow[k].via = via

\* C1: in every reachable state at most one rescheduleAppointment call is
\* unsettled, and the busy flag is set whenever one is.
C1_SingleWorker ==
    /\ Cardinality(inflight) <= 1
    /\ (inflight # {}) => isRunning

\* C1 witness: a run is in flight while two more requests wait behind it.
C1_Witness ==
    /\ Cardinality(inflight) = 1
    /\ Len(queue) = 2
    /\ isRunning

\* C2: item.resolve is called at most once for every request, whatever the
\* interleaving of its timer, its dispatch, the runner settle and shutdown
\* (also when shutdown is signalled twice), and only for created requests.
C2_ResolvedAtMostOnce ==
    \A i \in Items :
        /\ resolveCount[i] <= 1
        /\ ~Created(i) => resolveCount[i] = 0

\* C2 witness: after two shutdown signals, a request that the runner has
\* resolved has seen its timer fire as well, and another request was
\* resolved by a shutdown drain.
C2_Witness ==
    /\ signals = 2
    /\ \E i \in Items :
          /\ Dispatched(i) /\ Resolved(i) /\ timer[i] = "fired"
    /\ \E j \in Items : ResolvedNowVia(j, "shutdown")

\* C3: when a request b is handed to the runner, every earlier submission
\* that was ever handed to the runner has settled, and no later submission
\* has been handed to the runner yet.
C3_FifoNoOverlap ==
    [][\A b \in Items :
          dispatchCount'[b] > dispatchCount[b] =>
             /\ \A a \in Items : (a < b /\ Dispatched(a)) => a \notin inflight'
             /\ \A c \in Items : c > b => dispatchCount'[c] = 0]_vars

\* C3 witness: the first two submissions were both served; the second one
\* is in flight and the first one has settled.
C3_Witness ==
    /\ Dispatched(1) /\ Resolved(1)
    /\ inflight = {2}
    /\ Len(queue) > 0

\* C4 (as stated): no accepted request stays pending forever, also when it is
\* in flight or submitted when shutdown is triggered; so when the process
\* has exited, after which nothing more happens, no request is pending.
C4_NoPendingAtExit ==
    ~Alive => \A i \in Items : ~Pending(i)

\* C4 (amended): unless the process exits first, eventually exactly one
\* result has been produced for every accepted request, and it stays so.
C4_EventuallyResolvedOrExit ==
    <>[](Alive => \A i \in Items : Created(i) => resolveCount[i] = 1)

\* C4 witness: all submissions of the behaviour were accepted and each has
\* been resolved, through the runner, a timer and a shutdown drain.
C4_Witness ==
    /\ nItems = MaxItems
    /\ \A i \in Items : resolveCount[i] = 1
    /\ \E i \in Items : Dispatched(i) /\ ResolvedNowVia(i, "threw")
    /\ \E i \in Items : timedOut[i]
    /\ signals > 0
    /\ Alive

\* The variables a rejected submission and a stale timer must leave alone.
coreVars == <<queue, timedOut, isRunning, startedAt, inflight, dispatchCount,
              resolveCount, totalProcessed, totalSuccess, totalFailed,
              lastResult, nItems>>

\* C5: in a step taken while the waiting list holds MAX_QUEUE_SIZE entries,
\* no QueueItem is created and no timer is armed; the synchronous response
\* sent in such a step is the 429 queue-full error, and the step that sends
\* it makes no resolve call and leaves the list, the worker state, the
\* counters and the pending promises unchanged.
C5_QueueFullRejected ==
    [][Len(queue) = MAX_QUEUE_SIZE =>
          /\ nItems' = nItems
          /\ \A i \in Items : timer'[i] = "armed" => timer[i] = "armed"
          /\ lastSync' # None =>
                /\ lastSync' = [status |-> 429, success |-> FALSE,
                                error |-> QueueFullError]
                /\ resolvedNow' = <<>>
                /\ UNCHANGED <<coreVars, timer>>]_vars

\* C5 witness: a submission was just answered 429 with the list full behind
\* a run in flight.
C5_Witness ==
    /\ lastSync # None
    /\ lastSync.status = 429
    /\ Len(queue) = MAX_QUEUE_SIZE
    /\ inflight # {}

\* C6: in every reachable state the waiting list holds at most
\* MAX_QUEUE_SIZE entries.
C6_QueueBounded ==
    Len(queue) <= MAX_QUEUE_SIZE

\* C6 witness: the list is full and another submission was accepted before.
C6_Witness ==
    /\ Len(queue) = MAX_QUEUE_SIZE
    /\ nItems > MAX_QUEUE_SIZE
    /\ lastSync = None

\* The timer of item i fires in this step.
TimerStep(i) == timer[i] = "armed" /\ timer'[i] = "fired"

\* C7: when the timer of a request fires while the request is in the waiting
\* list, the request is marked timed-out, leaves the list and is resolved,
\* once, with success = false, the queue-timeout error and duration 0; a
\* timed-out request is not in the list and is never handed to the runner.
C7_TimeoutWhileQueued ==
    [][\A i \in Items :
          /\ (TimerStep(i) /\ InQueue(queue, i)) =>
                /\ timedOut'[i]
                /\ ~InQueue(queue', i)
                /\ Len(queue') = Len(queue) - 1
                /\ resolvedNow' =
                     <<[item |-> i, via |-> "timer",
                        result |-> [success |-> FALSE, requestId |-> i,
                                    error |-> QueueTimeoutError,
                                    duration |-> 0]]>>
                /\ resolveCount'[i] = 1
          /\ timedOut'[i] => (~InQueue(queue', i) /\ dispatchCount'[i] = 0)]_vars

\* C7 witness: the second submission just timed out in the list, behind a
\* run in flight and in front of a third submission.
C7_Witness ==
    /\ ResolvedNowVia(2, "timer")
    /\ timedOut[2]
    /\ inflight = {1}
    /\ queue = <<3>>

\* C8: when the timer of a request fires after the request has left the
\* waiting list, the callback makes no resolve call and changes neither the
\* timed-out flag, the list, the worker state nor the counters; a request
\* that was handed to the runner is resolved by the runner paths only.
C8_StaleTimerNoOp ==
    [][/\ \A i \in Items :
             (TimerStep(i) /\ ~InQueue(queue, i)) =>
                 /\ resolvedNow' = <<>>
                 /\ UNCHANGED coreVars
       /\ \A k \in 1..Len(resolvedNow') :
             dispatchCount'[resolvedNow'[k].item] > 0 =>
                 resolvedNow'[k].via \in {"returned", "threw"}]_vars

\* C8 witness: the timer of the request in flight has fired and the request
\* is still in flight, unresolved and not marked timed-out.
C8_Witness ==
    \E i \in Items :
        /\ timer[i] = "fired"
        /\ i \in inflight
        /\ resolveCount[i] = 0
        /\ ~timedOut[i]
        /\ resolvedNow = <<>>

\* C9: a shutdown() call resolves every entry of the waiting list, in list
\* order, with success = false, 'Server shutting down' and duration 0, and
\* leaves the list empty, in the step that closes the endpoint and with the
\* process still running; the process exits only after such a call.
C9_ShutdownDrainsQueue ==
    [][/\ signals' # signals =>
             /\ queue' = <<>>
             /\ ~listening'
             /\ process' = "running"
             /\ Len(resolvedNow') = Len(queue)
             /\ \A k \in 1..Len(queue) :
                   /\ resolvedNow'[k] =
                        [item |-> queue[k], via |-> "shutdown",
                         result |-> [success |-> FALSE, requestId |-> queue[k],
                                     error |-> "Server shutting down",
                                     duration |-> 0]]
                   /\ resolveCount'[queue[k]] = 1
       /\ process' # "running" => signals > 0]_vars

\* C9 witness: shutdown was just triggered with two requests waiting.
C9_Witness ==
    /\ signals = 1
    /\ Len(resolvedNow) = 2
    /\ \A k \in 1..2 : resolvedNow[k].via = "shutdown"
    /\ queue = <<>>
    /\ Alive

\* The RunResults the runner paths can produce for request i.
RunnerResults(i) ==
    {RunResultOf(i, out, d) : out \in {o \in RunnerOutcomes : ~o.threw},
                              d \in Durations}
    \cup {ErrorResultOf(i, out.message) : out \in {o \in RunnerOutcomes : o.threw}}

\* C10: a shutdown() call leaves the busy flag, the start time and the
\* request in flight untouched and makes no resolve call for it; a request
\* that was handed to the runner is resolved with a result of the runner,
\* never with the shutdown failure.
C10_ShutdownKeepsInflight ==
    [][/\ signals' # signals =>
             /\ UNCHANGED <<isRunning, startedAt, inflight, dispatchCount>>
             /\ \A i \in inflight : resolveCount'[i] = resolveCount[i]
       /\ \A k \in 1..Len(resolvedNow') :
             dispatchCount'[resolvedNow'[k].item] > 0 =>
                 /\ resolvedNow'[k].result \in RunnerResults(resolvedNow'[k].item)
                 /\ resolvedNow'[k].result # ShutdownResult(resolvedNow'[k].item)]_vars

\* C10 witness: request i was in flight when a shutdown drained a later
\* request j, and the runner has now settled i with its own result.
C10_Witness ==
    \E i, j \in Items :
        /\ i < j
        /\ ResolvedNowVia(i, "returned")
        /\ resolveCount[j] = 1 /\ dispatchCount[j] = 0 /\ ~timedOut[j]
        /\ signals > 0
        /\ Alive

\* C11: the promise of enqueue is never rejected.  Every resolve call made
\* for a runner business failure, a runner exception, a queue timeout or a
\* shutdown carries a result object with success = FALSE and an error text;
\* a runner call that has settled has resolved its request (thrown errors
\* included); and each resolve call is answered by the HTTP handler with
\* that result, status 200 on success and 500 otherwise.
C11_NeverRejected ==
    /\ \A k \in 1..Len(resolvedNow) :
          LET c == resolvedNow[k] IN
          /\ c.via \in {"threw", "timer", "shutdown"} =>
                 /\ c.result.success = FALSE
                 /\ "error" \in DOMAIN c.result
          /\ c.via = "returned" => c.result.success \in BOOLEAN
          /\ (c.via = "returned" /\ ~c.result.success) =>
                 "error" \in DOMAIN c.result
    /\ \A i \in Items : (Dispatched(i) /\ i \notin inflight) => Resolved(i)
    /\ Len(sentNow) = Len(resolvedNow)
    /\ \A k \in 1..Len(sentNow) :
          /\ sentNow[k].item = resolvedNow[k].item
          /\ sentNow[k].body = resolvedNow[k].result
          /\ sentNow[k].status = IF resolvedNow[k].result.success THEN 200 ELSE 500

\* C11 witness: the runner threw for request i, and the handler of i has
\* answered 500 with the failure result built in the catch body.
C11_Witness ==
    \E i \in Items :
        /\ ResolvedNowVia(i, "threw")
        /\ \E k \in 1..Len(sentNow) :
              /\ sentNow[k].item = i
              /\ sentNow[k].status = 500
              /\ sentNow[k].body.success = FALSE
              /\ sentNow[k].body.error = UnexpectedError

\* C12: no step hands a request to the runner a second time, and a request
\* that has been resolved (runner result, thrown error, queue timeout or
\* shutdown) is never handed to the runner afterwards.
C12_NoRetry ==
    [][\A i \in Items :
          /\ dispatchCount'[i] <= 1
          /\ Resolved(i) => dispatchCount'[i] = dispatchCount[i]]_vars

\* C12 witness: request i failed in the runner (a thrown error), the worker
\* is idle again with nothing waiting, and i was dispatched exactly once.
C12_Witness ==
    \E i \in Items :
        /\ ResolvedNowVia(i, "threw")
        /\ dispatchCount[i] = 1
        /\ inflight = {}
        /\ ~isRunning
        /\ nItems >= 2

\* C13: every resolve call hands a request the result carrying that
\* request's own id, the response sent for it goes to the same request, a
\* result built from a runner call goes to the request that runner call was
\* made for, and no request other than those named by the resolve calls of
\* a step is resolved by it.
C13_NoCrossResolution ==
    [][/\ \A k \in 1..Len(resolvedNow') :
             LET c == resolvedNow'[k] IN
             /\ c.result.requestId = generateRequestId(c.item)
             /\ sentNow'[k].item = c.item
             /\ sentNow'[k].body.requestId = generateRequestId(c.item)
             /\ (/\ c.via \in {"returned", "threw"}
                 /\ resolveCount'[c.item] # resolveCount[c.item]) =>
                    /\ c.item \in inflight
                    /\ inflight \ inflight' = {c.item}
       /\ \A i \in Items :
             resolveCount'[i] # resolveCount[i] =>
                 \E k \in 1..Len(resolvedNow') : resolvedNow'[k].item = i]_vars

\* C13 witness: the runner result of request 1 was delivered to request 1
\* while requests 2 and 3 were pending, 2 dispatched next and 3 waiting.
C13_Witness ==
    /\ ResolvedNowVia(1, "returned")
    /\ resolveCount = [i \in Items |-> IF i = 1 THEN 1 ELSE 0]
    /\ inflight = {2}
    /\ queue = <<3>>

\* C14 (as stated): on every settle of a runner call, returned or thrown,
\* the request is resolved, the counters are updated and lastResult becomes
\* the result of that request.
C14_SettleSetsLastResult ==
    [][\A i \in inflight :
          i \notin inflight' =>
             /\ resolveCount'[i] = resolveCount[i] + 1
             /\ totalProcessed' = totalProcessed + 1
             /\ totalSuccess' + totalFailed' = totalSuccess + totalFailed + 1
             /\ \E k \in 1..Len(resolvedNow') :
                   /\ resolvedNow'[k].item = i
                   /\ lastResult' = LastResultOf(i, resolvedNow'[k].result)]_vars

\* Requests i and j were submitted back-to-back (at the same clock value),
\* i before j, and both were served by a runner call that returned.
ServedBackToBack(i, j) ==
    /\ i < j
    /\ tOutcome[i] = "returned"
    /\ tOutcome[j] = "returned"
    /\ tQueuedAt[i] = tQueuedAt[j]

\* C15 (as stated): with the same runner latency for every request, the
\* durations of requests submitted back-to-back and served in FIFO order
\* are strictly increasing in submission order.
C15_DurationsStrictlyIncrease ==
    \A i, j \in Items :
        ServedBackToBack(i, j) => tDuration[i] < tDuration[j]

\* C15 (amended): the duration of a result is the time of its own runner
\* call only, rounded to whole seconds (0 when the runner threw): with the
\* same latency for every request the durations of the served requests are
\* all equal, not increasing; what increases strictly in submission order
\* is the moment a result is produced, by at least one latency per request.
C15_DurationIsRunTime ==
    /\ \A i \in Items :
          /\ tOutcome[i] = "returned" => tDuration[i] = Round(tLatency)
          /\ tOutcome[i] = "threw" => tDuration[i] = 0
    /\ \A i, j \in Items :
          ServedBackToBack(i, j) =>
              /\ tDuration[i] = tDuration[j]
              /\ tFinishedAt[i] + tLatency <= tFinishedAt[j]

\* C15 witness: three requests submitted at time 0 with a runner latency of
\* 2 s each: served one after the other, finished at 2 s, 4 s and 6 s, each
\* with duration 2.
C15_Witness ==
    /\ tLatency = 4
    /\ \A i \in 1..3 :
          /\ tOutcome[i] = "returned"
          /\ tQueuedAt[i] = 0
          /\ tDuration[i] = 2
          /\ tFinishedAt[i] = 4 * i

\* The handler of the request received runs in this step.
HandlerRuns == hPhase = "received" /\ hPhase' # "received"

\* A required field is missing or empty, newDate or newTime does not match
\* its format, or a currentAppointmentDate was given and does not match.
InvalidBody(req) ==
    \/ Falsy(req.clientSearch)
    \/ Falsy(req.newDate)
    \/ Falsy(req.newTime)
    \/ ~MatchesDate(req.newDate.text)
    \/ ~MatchesTime(req.newTime.text)
    \/ /\ ~Falsy(req.currentAppointmentDate)
       /\ ~MatchesDate(req.currentAppointmentDate.text)

\* C16: an authenticated request whose body fails validation is answered
\* 400 with success = FALSE by its handler, whether or not the queue is
\* full, and the handler creates no item, arms no timer and leaves the
\* waiting list and the worker state as they were.
C16_InvalidRejectedBeforeQueueing ==
    [][(/\ HandlerRuns
        /\ AuthPasses(ApiKeyOf(hEnvKey), hReq.key)
        /\ InvalidBody(hReq)) =>
           /\ hResp' # None
           /\ hResp'.status = 400
           /\ hResp'.success = FALSE
           /\ hResp'.error \in {MissingFieldsError, NewDateError, NewTimeError,
                                CurrentDateError}
           /\ UNCHANGED <<hQueue, hRunning, hItem, hItems, hTimers>>]_vars

\* C16 witness: with the waiting list full, a request whose newDate is
\* "3/5/2026" has been answered 400 (not 429) with the newDate error.
C16_Witness ==
    /\ hPhase = "answered"
    /\ QueueIsFull(hQueue)
    /\ hReq.newDate = Field("3/5/2026")
    /\ hResp.status = 400
    /\ hResp.error = NewDateError

\* An API key is configured in the environment.
Configured(env) == env # Unset /\ env # ""

\* C17 (as stated): with an API key configured, a POST whose x-api-key
\* header is missing or different is answered 401 and nothing is enqueued;
\* with no API key configured, no POST is answered 401.
C17_AuthOnlyIfConfigured ==
    [][HandlerRuns =>
          /\ (Configured(hEnvKey) /\ hReq.key # hEnvKey) =>
                 /\ hResp' # None
                 /\ hResp'.status = 401
                 /\ UNCHANGED <<hQueue, hRunning, hItem, hItems, hTimers>>
          /\ ~Configured(hEnvKey) =>
                 (hResp' = None \/ hResp'.status # 401)]_vars

\* C21: the step in which a runner call settles, returned or thrown, ends
\* with the worker drained again: with an empty waiting list the busy flag
\* and the start time are cleared, otherwise the head of the list is
\* dispatched in that same step; the busy flag is never set without a
\* runner call in flight.
C21_SettleClearsAndDrains ==
    [][/\ \A i \in inflight :
             i \notin inflight' =>
                IF queue = <<>>
                THEN /\ ~isRunning'
                     /\ startedAt' = Null
                     /\ inflight' = {}
                     /\ queue' = <<>>
                ELSE /\ isRunning'
                     /\ startedAt' # Null
                     /\ inflight' = {Head(queue)}
                     /\ queue' = Tail(queue)
                     /\ dispatchCount'[Head(queue)] = dispatchCount[Head(queue)] + 1
       /\ isRunning' => inflight' # {}]_vars

\* C21 witness: the runner threw for request 1 and request 2, the head of
\* the waiting list, was dispatched by the same step.
C21_Witness ==
    /\ ResolvedNowVia(1, "threw")
    /\ inflight = {2}
    /\ isRunning
    /\ dispatchCount[2] = 1
    /\ resolveCount[2] = 0

\* C22: in every reachable state an idle worker (busy flag clear) has an
\* empty waiting list, and a non-empty waiting list has a runner call in
\* flight.
C22_WorkConserving ==
    /\ ~isRunning => queue = <<>>
    /\ queue # <<>> => inflight # {}

\* C22 witness: three requests were submitted while the first was running,
\* all were served, and the worker is idle with an empty list.
C22_Witness ==
    /\ Alive
    /\ ~isRunning
    /\ queue = <<>>
    /\ totalProcessed = 3
    /\ \A i \in 1..3 : dispatchCount[i] = 1

\* C23: a request whose timed-out flag is set has never been passed to the
\* runner, and whatever flags the entries of the current waiting list carry,
\* the entry a drain chooses for dispatch is not a flagged one.
C23_TimedOutNeverDispatched ==
    /\ \A i \in Items : timedOut[i] => dispatchCount[i] = 0
    /\ \A tOut \in [Items -> BOOLEAN] :
          LET pq == ProcessQueue(queue, FALSE, Null, tOut)
          IN  pq.item # 0 => ~tOut[pq.item]

\* C23 witness: request 2 timed out behind the running request 1; when 1
\* returned, the drain dispatched request 3.
C23_Witness ==
    /\ timedOut[2]
    /\ dispatchCount[2] = 0
    /\ ResolvedNowVia(1, "returned")
    /\ inflight = {3}

\* C24: a submission accepted while the worker is busy only appends its
\* entry: the drain it attempts leaves busy flag, start time, in-flight call,
\* dispatch counts, counters and last result unchanged.  For the lists,
\* flags and start times of the states before and after every step, a drain
\* attempted while busy or on an empty list returns its arguments unchanged
\* and dispatches nothing, and a second drain right after a first one
\* changes nothing more.
C24_RedundantDrainNoOp ==
    [][/\ (isRunning /\ nItems' = nItems + 1 /\ timer'[nItems'] = "armed") =>
              /\ queue' = Append(queue, nItems')
              /\ UNCHANGED <<isRunning, startedAt, inflight, dispatchCount,
                             totalProcessed, totalSuccess, totalFailed,
                             lastResult>>
       /\ \A q \in {queue, queue'} :
          \A running \in {isRunning, isRunning'} :
          \A started \in {startedAt, startedAt'} :
             LET pq == ProcessQueue(q, running, started, timedOut')
             IN  /\ DrainGuard(running, q) =>
                       pq = [queue |-> q, isRunning |-> running,
                             startedAt |-> started, item |-> 0]
                 /\ ProcessQueue(pq.queue, pq.isRunning, pq.startedAt,
                                  timedOut') = [pq EXCEPT !.item = 0]]_vars

\* C24 witness: request 2 was submitted while request 1 was running; it
\* waits, armed and undispatched, behind the same in-flight call.
C24_Witness ==
    /\ nItems = 2
    /\ isRunning
    /\ inflight = {1}
    /\ queue = <<2>>
    /\ timer[2] = "armed"
    /\ dispatchCount[2] = 0
    /\ lastSync = None

\* The waiting list holding the requests of S: enqueue pushes at the tail
\* and ids are handed out in submission order, so the list is ascending.
RECURSIVE Ascending(_)
Ascending(S) ==
    IF S = {} THEN <<>>
    ELSE LET m == CHOOSE x \in S : \A y \in S : x <= y
         IN  <<m>> \o Ascending(S \ {m})

\* q with every entry equal to i left out, the others in their order.
Without(q, i) == SelectSeq(q, LAMBDA x : x # i)

\* queue.splice(idx, 1) applied at every position of every list of requests
\* in submission order leaves the other entries, in their order.
SpliceKeepsOrder ==
    \A S \in SUBSET Items :
       LET q == Ascending(S)
       IN  \A idx \in 1..Len(q) : Splice(q, idx) = Without(q, q[idx])

PhaseOf(i, q, infl, rc, n) ==
    IF i > n THEN "absent"
    ELSE IF InQueue(q, i) THEN "waiting"
    ELSE IF i \in infl THEN "dispatched"
    ELSE IF rc[i] > 0 THEN "settled"
    ELSE "lost"

\* The transitions of the lifecycle; a request submitted to an idle worker
\* is pushed and shifted within one handler.
PhaseSteps ==
    {<<"absent", "waiting">>, <<"absent", "dispatched">>,
     <<"waiting", "dispatched">>, <<"waiting", "settled">>,
     <<"dispatched", "settled">>}

\* C26: after every step each entry of the waiting list occurs once, is
\* unresolved and was never dispatched; every created request is waiting,
\* dispatched or settled; and a step moves a request only from waiting to
\* dispatched or settled, or from dispatched to settled, so a request that
\* left the list never re-enters it.
C26_EntryLifecycle ==
    [][\A i \in Items :
          LET old == PhaseOf(i, queue, inflight, resolveCount, nItems)
              new == PhaseOf(i, queue', inflight', resolveCount', nItems')
          IN  /\ new # "lost"
              /\ new = old \/ <<old, new>> \in PhaseSteps
              /\ InQueue(queue', i) =>
                    /\ resolveCount'[i] = 0
                    /\ dispatchCount'[i] = 0
                    /\ i \notin inflight'
                    /\ Cardinality({k \in 1..Len(queue') : queue'[k] = i}) = 1]_vars

\* C26 witness: request 1 went waiting -> dispatched -> settled by the
\* runner, request 3 waiting -> settled by its timer, request 4 waiting ->
\* settled by the shutdown drain, and request 2 is still dispatched; the
\* list is empty.
C26_Witness ==
    /\ resolveCount[1] = 1 /\ dispatchCount[1] = 1
    /\ timedOut[3] /\ resolveCount[3] = 1 /\ dispatchCount[3] = 0
    /\ ResolvedNowVia(4, "shutdown")
    /\ inflight = {2}
    /\ queue = <<>>

\* C27: after every step no entry of the waiting list has its timed-out
\* flag set, so the head-skipping loop of a drain returns the list as it
\* is; the flag of a request is set only by the timer step of a waiting
\* request, which takes the request out of the list in that same step.
C27_NoFlaggedEntryInList ==
    [][/\ \A k \in 1..Len(queue') : ~timedOut'[queue'[k]]
       /\ SkipTimedOut(queue', timedOut') = queue'
       /\ \A i \in Items :
             (timedOut'[i] /\ ~timedOut[i]) =>
                /\ TimerStep(i)
                /\ InQueue(queue, i)
                /\ ~InQueue(queue', i)]_vars

\* C27 witness: request 2 was flagged and removed by its timer while the
\* requests 3 and 4 wait, unflagged, behind the running request 1.
C27_Witness ==
    /\ timedOut[2]
    /\ inflight = {1}
    /\ queue = <<3, 4>>
    /\ ~timedOut[3] /\ ~timedOut[4]

\* C28: once a shutdown signal has been handled, the waiting list is empty
\* after every step and no step dispatches a request to the runner.
C28_NoDispatchAfterShutdown ==
    [][/\ signals' > 0 => queue' = <<>>
       /\ signals > 0 => dispatchCount' = dispatchCount]_vars

\* The number of rescheduleAppointment calls made for the requests of S.
RECURSIVE Invocations(_, _)
Invocations(dc, S) ==
    IF S = {} THEN 0
    ELSE LET i == CHOOSE x \in S : TRUE
         IN  dc[i] + Invocations(dc, S \ {i})

\* The number of rescheduleAppointment calls that have settled.
SettledRuns(dc, infl) == Invocations(dc, Items) - Cardinality(infl)

\* C29: after every step totalProcessed = totalSuccess + totalFailed and
\* totalProcessed is the number of runner calls that have settled; no step
\* decreases a counter, and the step in which a runner call settles,
\* returned or thrown, adds exactly one to totalProcessed.
C29_CountersCountSettledRuns ==
    [][/\ totalProcessed' = totalSuccess' + totalFailed'
       /\ totalProcessed' = SettledRuns(dispatchCount', inflight')
       /\ totalProcessed' >= totalProcessed
       /\ totalSuccess' >= totalSuccess
       /\ totalFailed' >= totalFailed
       /\ \A i \in inflight :
             i \notin inflight' => totalProcessed' = totalProcessed + 1]_vars

\* C29 witness: three runner calls have settled, one with a success and two
\* with a failure, the last of them by throwing; a fourth is in flight and not
\* counted.
C29_Witness ==
    /\ totalProcessed = 3
    /\ totalSuccess = 1
    /\ totalFailed = 2
    /\ ResolvedNowVia(3, "threw")
    /\ inflight = {4}

\* The aggregate counters and the last-result snapshot.
statsVars == <<totalProcessed, totalSuccess, totalFailed, lastResult>>

\* C30: a step changes a counter or the last-result snapshot only if a
\* runner call settles in it; the timer step of a request, the handling of
\* a shutdown signal and a submission answered synchronously with 400, 401
\* or 429 leave all four unchanged.
C30_OnlySettleChangesStats ==
    [][/\ statsVars' # statsVars =>
             \E i \in inflight :
                i \notin inflight' /\ resolveCount'[i] = resolveCount[i] + 1
       /\ (\E i \in Items : TimerStep(i)) => statsVars' = statsVars
       /\ signals' # signals => statsVars' = statsVars
       /\ lastSync' # None => statsVars' = statsVars]_vars

\* C30 witness: after request 1 was served, request 3 timed out in the
\* list, request 4 was drained by a shutdown and a submission was answered
\* with 401, while the counters and the snapshot still show request 1 only.
C30_Witness ==
    /\ totalProcessed = 1
    /\ lastResult # None
    /\ lastResult.requestId = generateRequestId(1)
    /\ timedOut[3]
    /\ resolveCount[4] = 1 /\ dispatchCount[4] = 0 /\ ~timedOut[4]
    /\ lastSync # None
    /\ lastSync.status = 401
    /\ inflight = {2}

\* C31: no two entries of the waiting list carry the same request id, and
\* no two accepted submissions were given the same request id.
C31_RequestIdsUnique ==
    /\ \A j, k \in 1..Len(rQueue) :
          j # k => rIds[rQueue[j]] # rIds[rQueue[k]]
    /\ \A i, j \in 1..Len(rIds) : i # j => rIds[i] # rIds[j]

\* C32: in every reachable state startedAt is set exactly when the busy
\* flag is set, and the busy flag is set exactly when a runner call is in
\* flight.
C32_HealthConsistent ==
    /\ startedAt # Null <=> isRunning
    /\ isRunning <=> inflight # {}

\* C32 witness: the second run is in progress after the first one settled
\* and the worker was idle in between; busy flag and start time are set.
C32_Witness ==
    /\ isRunning
    /\ startedAt # Null
    /\ inflight = {2}
    /\ resolveCount[1] = 1
    /\ dispatchCount[1] = 1
    /\ queue = <<>>
    /\ nItems = 2

\* C33: the category of a message is decided by the text left after the
\* log blocks and the leading qualifier are stripped: a timeout message is
\* given the sentence its stripped text selects, and a stripped text
\* passing a "no ... appointment" test is returned as it is.
C33_CategoryFromStrippedText ==
    cDone =>
       LET msg == Stripped(cRaw) IN
       /\ TimeoutExceeded(msg) => cMsg = TimeoutSentence(msg)
       /\ (~TimeoutExceeded(msg) /\ IsNoAppointment(msg)) => cMsg = msg

\* C34: the step in which a process-level error is handled leaves the
\* process running and the waiting list, the worker state, the timers, the
\* counters and the pending requests unchanged; and once such an error has
\* been handled, the step in which a runner call settles still dispatches
\* the head of the waiting list.
C34_ErrorHandlersOnlyLog ==
    [][/\ eLogged' # eLogged =>
             /\ Alive'
             /\ UNCHANGED queueVars
       /\ \A i \in inflight :
             (eLogged > 0 /\ i \notin inflight' /\ queue # <<>>) =>
                /\ inflight' = {Head(queue)}
                /\ queue' = Tail(queue)]_vars

\* C34 witness: a process-level error has been handled, the process is
\* alive, and the step in which request 1 returned has dispatched the
\* waiting request 2.
C34_Witness ==
    /\ eLogged = 1
    /\ Alive
    /\ ResolvedNowVia(1, "returned")
    /\ inflight = {2}
    /\ dispatchCount[2] = 1

\* C35: a finished call of rescheduleAppointment has fulfilled its promise
\* with a {success, message} result, with success = FALSE and the cleaned
\* message when a step threw, and has closed the browser it launched.
C35_AlwaysSettlesAndCloses ==
    wPc = "done" =>
       /\ wSettled.state = "fulfilled"
       /\ wSettled.value.success \in BOOLEAN
       /\ wError # None =>
             /\ ~wSettled.value.success
             /\ wSettled.value.message = cleanErrorMessage(MessageOf(wError))
       /\ wBrowser # "open"

\* C36: the step that chooses the target appointment fails with "No
\* clickable appointment link found" when there is no link; with a
\* currentAppointmentDate it takes the first link, in list order, whose text
\* contains one of the date's display formats, and fails with "No
\* appointment found matching date" when no link does; without one it takes
\* the first link.  A call that failed to match reports the failure and has
\* not clicked Save.
C36_SelectsFirstMatching ==
    [][/\ (wPc = "select" /\ wPc' # "select") =>
            LET date == wData.currentAppointmentDate
                hits == {i \in 1..Len(wAppts) :
                           \E k \in 1..Len(possibleFormats(date.text)) :
                              Includes(wAppts[i], possibleFormats(date.text)[k])}
            IN  IF Len(wAppts) = 0
                THEN /\ wPc' = "catch"
                     /\ wTarget' = 0
                     /\ wError' = Thrown(NoClickable(wData.clientSearch))
                ELSE IF date.present /\ date.text # ""
                THEN IF hits = {}
                     THEN /\ wPc' = "catch"
                          /\ wTarget' = 0
                          /\ wError'.message =
                                NoMatching(date.text, wData.clientSearch,
                                           ToDecimal(Len(wAppts)))
                     ELSE /\ wPc' = "form"
                          /\ wTarget' \in hits
                          /\ \A j \in hits : wTarget' <= j
                ELSE /\ wPc' = "form"
                     /\ wTarget' = 1
       /\ wModified' => wTarget' # 0
       /\ (/\ wPc' = "done"
           /\ wError' # None
           /\ Includes(wError'.message, "No appointment found matching date")
           /\ wSettled'.state = "fulfilled") =>
              /\ ~wSettled'.value.success
              /\ Includes(wSettled'.value.message,
                          "No appointment found matching date")
              /\ ~wModified']_vars

\* A call with currentAppointmentDate 03/06/2026 found two links that both
\* show that date, opened the first and saved it.
C36_Witness ==
    /\ wPc = "done"
    /\ wData # None
    /\ wData.currentAppointmentDate = Field("03/06/2026")
    /\ wAppts = <<"Mar 6, 2026 10:00 AM", "Fri 03/06/2026 Office visit">>
    /\ wTarget = 1
    /\ wModified
    /\ wSettled.state = "fulfilled"

\* C37: in the child-process server a request with a valid body received
\* while isRunning is true is answered 429 and spawns nothing, and one
\* received while it is false is taken on; at most one child process is
\* alive at any time; and when a run ends, by a close event with any exit
\* code or by a thrown error, isRunning, currentProcess and startedAt are
\* back to false, null and null.
C37_OneChildAtATime ==
    [][/\ Cardinality(kChildren') <= 1
       /\ kIsRunning' <=> kChildren' # {}
       /\ kIsRunning' <=> kCurrentProcess' # None
       /\ kIsRunning' <=> kStartedAt' # None
       /\ Len(kResponses') > Len(kResponses) =>
             LET new == kResponses'[Len(kResponses')]
                 valid == /\ new.body.clientSearch.present
                          /\ new.body.clientSearch.text # ""
                          /\ MatchesDate(new.body.newDate.text)
                          /\ MatchesTime(new.body.newTime.text)
             IN  /\ (valid /\ kIsRunning) =>
                       /\ new.status = 429
                       /\ kChildren' = kChildren
                       /\ kOwner' = kOwner
                 /\ (valid /\ ~kIsRunning) => new.status \in {0, 500}
                 /\ new.status = 0 => Len(kOwner') = Len(kOwner) + 1
       /\ (\E r \in 1..Len(kResponses) :
              /\ kResponses[r].status = 0
              /\ kResponses'[r].status # 0) =>
             /\ ~kIsRunning'
             /\ kCurrentProcess' = None
             /\ kStartedAt' = None
       /\ (/\ Len(kResponses') > Len(kResponses)
           /\ kResponses'[Len(kResponses')].status = 500) =>
             /\ ~kIsRunning'
             /\ kCurrentProcess' = None
             /\ kStartedAt' = None]_vars

\* The first request ran and its child closed with a failure, the second
\* met a thrown spawn error, the third is running, and a fourth, valid,
\* was answered 429 meanwhile.
C37_Witness ==
    /\ Len(kResponses) = 4
    /\ kResponses[1].status = 200 /\ ~kResponses[1].success
    /\ kResponses[2].status = 500
    /\ kResponses[3].status = 0
    /\ kResponses[4].status = 429
    /\ kIsRunning
    /\ kChildren = {2}
    /\ kCurrentProcess = [pid |-> 2]

HasNewline(s) == \E k \in 1..Len(s) : Ch(s, k) = "\n"

\* C18 (as stated): whatever the raw text, the value returned has no
\* newline and at most 203 characters, and one longer than the cap of 200
\* is 200 characters followed by "...".
C18_SingleLineCapped ==
    cDone =>
        /\ ~HasNewline(cMsg)
        /\ Len(cMsg) <= MaxMessageLength + 3
        /\ Len(cMsg) > MaxMessageLength =>
               /\ Len(cMsg) = MaxMessageLength + 3
               /\ SubSeq(cMsg, MaxMessageLength + 1, MaxMessageLength + 3) = "..."

\* C19 (as stated): the example text of the specification is mapped to
\* the search-timeout sentence, on one line and within 200 characters.
C19_SearchExampleMapped ==
    (cDone /\ cRaw = SearchExample) =>
        /\ cMsg = SearchTimedOut
        /\ ~HasNewline(cMsg)
        /\ Len(cMsg) <= MaxMessageLength

\* C20: when the timeout test holds of the stripped message, the value
\* returned is the fixed sentence of the first category, in the order
\* login, page load, search, form load, whose test holds of the raw text,
\* and the generic timeout sentence when none does.  A message that is no
\* timeout and is recognised as a "no ... appointment" message is returned
\* as it stands after the log blocks and the qualifier were stripped, not
\* collapsed and not cut; the messages the runner throws itself come back
\* identical to the raw text.
C20_TimeoutPriority ==
    cDone =>
        LET msg == Stripped(cRaw) IN
        /\ TimeoutExceeded(msg) =>
               /\ IsLoginTimeout(cRaw) => cMsg = LoginTimedOut
               /\ (~IsLoginTimeout(cRaw) /\ IsPageLoadTimeout(cRaw)) =>
                      cMsg = PageLoadTimedOut
               /\ (/\ ~IsLoginTimeout(cRaw)
                   /\ ~IsPageLoadTimeout(cRaw)
                   /\ IsSearchTimeout(cRaw)) => cMsg = SearchTimedOut
               /\ (/\ ~IsLoginTimeout(cRaw)
                   /\ ~IsPageLoadTimeout(cRaw)
                   /\ ~IsSearchTimeout(cRaw)
                   /\ IsFormTimeout(cRaw)) => cMsg = FormTimedOut
               /\ (/\ ~IsLoginTimeout(cRaw)
                   /\ ~IsPageLoadTimeout(cRaw)
                   /\ ~IsSearchTimeout(cRaw)
                   /\ ~IsFormTimeout(cRaw)) => cMsg = OperationTimedOut
        /\ (~TimeoutExceeded(msg) /\ IsNoAppointment(msg)) =>
               /\ cMsg = msg
               /\ cRaw \in RunnerThrows => cMsg = cRaw

\* C20 witness: a timeout raised by page.waitForURL whose call log names
\* the search box passes the login test and the search test, and was
\* mapped to the login sentence.
C20_Witness ==
    /\ cDone
    /\ TimeoutExceeded(Stripped(cRaw))
    /\ IsLoginTimeout(cRaw)
    /\ IsSearchTimeout(cRaw)
    /\ cMsg = LoginTimedOut

=============================================================================
